---------------------------- MODULE Spec2Model ----------------------------
(***************************************************************************)
(* A model of the client lock layer of the torrent client                  *)
(* (lockWithDeferreds, compatCond, Event), of the per-peer request state   *)
(* (Peer.request / cancel / deleteRequest / receiveChunkImpl) and of the   *)
(* per-connection message writer (peerConnMsgWriter.run).                  *)
(*                                                                         *)
(* Several state machines share the variables below.  Each has its own     *)
(* initial predicate and next-state relation; the variables of the others  *)
(* are held at their initial values.                                       *)
(*   Spec          the client lock, its deferred actions and its condition *)
(*                 variables, driven by goroutines                         *)
(*   PeerSpec      request bookkeeping of the peers of one torrent, with   *)
(*                 the scheduler, on a piece of one chunk                  *)
(*   PieceSpec     the same peer operations on a piece of several chunks   *)
(*   QuotaSpec     one peer's requests against its request quota           *)
(*   RequesterSpec the requester goroutines of a webseed peer and the      *)
(*                 client lock they take and release                       *)
(*   WriterSpec    one connection's writer goroutine and the request-update*)
(*                 trigger (WriterFairSpec adds the scheduling assumptions)*)
(*   OrderSpec     the client's piece request order under the updates of   *)
(*                 one torrent's pieces                                    *)
(*   WebseedSpec   the requesters of a webseed peer together with the      *)
(*                 peer's requests (WebseedFairSpec adds the scheduling    *)
(*                 assumptions)                                            *)
(*   DropSpec      a reader blocked in Event.Wait and the drop of its      *)
(*                 torrent (DropFairSpec adds the scheduling assumptions)  *)
(*   OverflowSpec  one call of chunkOverflowsPiece on 32-bit integers      *)
(*   ExpectingSpec one call of Peer.expectingChunks                        *)
(***************************************************************************)
EXTENDS Integers, Sequences, FiniteSets, TLC

\* ------------------------------------------------------------------ bounds
NumGoroutines == 2
MaxDefers == 2
NumPeers == 2
NumChunks == 1
PieceChunks == 2
QuotaChunks == 4
Reqq == 1
QuotaReqq == 4
MaxValidReceive == 2
MaxPeakDebt == 1
NumPieces == 2
MaxPriority == 1
MaxAvailability == 1

\* ------------------------------------------------------------- state
VARIABLES
    \* lockWithDeferreds
    internal,        \* holder of the write side of me.internal, 0 when free
    allowDefers,     \* me.allowDefers
    unlockActions,   \* me.unlockActions
    uniqueActions,   \* me.uniqueActions (the set of keys)
    \* goroutines using the lock
    pc,              \* where each goroutine is
    mode,            \* how each goroutine acquired the lock it holds
    i,               \* loop index of the running runUnlockActions
    startLen,        \* startLen of the running runUnlockActions
    \* compatCond and Event
    waiters,         \* compatCond.waiters, one channel per waiting goroutine
    eventWaiters,    \* Event.waiters
    ch,              \* state of the channel each goroutine made in Wait
    waitImpl,        \* which Wait body the build carries
    \* outcome and history
    panicked,        \* "" while the process runs, else the panic's message
    ran,             \* actions the running runUnlockActions has called so far
    nDeferred,       \* per callback: times accepted into unlockActions
    nRun,            \* per callback: times called
    uniqueCalls,     \* DeferUniqueUnaryFunc calls since the last queue reset
    leftWaiting,     \* per goroutine woken by Signal: waiters it left queued
    \* a reader of a torrent's data and the goroutine that drops the torrent
    torrentClosed,   \* Torrent.closed
    hashedPieces,    \* pieces whose hash check has completed
    readPos,         \* the piece the reader is at
    readState,       \* "reading" or "returned": has io.Copy's last Read returned
    dropState,       \* where the goroutine that hashes, then drops, is
    \* one peer connection's writer (peerConnMsgWriter) and its environment
    wpc,             \* where the writer goroutine is in run()
    writeBuffer,     \* fill level of cn.writeBuffer
    recentFill,      \* time.Since(cn.lastBufferFill) < cn.minFillGap
    keepAliveTimer,  \* "armed", "fired" (value in timer.C) or "consumed"
    writeCondCh,     \* the channel writeCond holds: "nil" or "open"
    woken,           \* the channel the blocked writer selects on is closed
    cnMu,            \* holder of cn.mu
    clientMu,        \* holder of the client lock as the connection sees it
    callerDefers,    \* allowDefers while the caller holds the client lock
    deferredTickle,  \* handleOnNeedUpdateRequests is queued for unlock
    needRequestUpdate, \* Peer.needRequestUpdate, "" when no reason is set
    closed,          \* pc.closed
    filledSinceWake, \* fillWriteBuffer was called since the writer last woke
    useful,          \* pc.useful()
    frontBuf,        \* what run()'s frontBuf holds: "empty", "data", "keepalive"
    \* the peers of one torrent and the chunks of one of its pieces
    requests,        \* per peer: Peer.requestState.Requests
    cancelled,       \* per peer: Peer.requestState.Cancelled
    validReceiveChunks, \* per peer and request index: Peer.validReceiveChunks
    requestState,    \* per request index: Torrent.requestState[r].peer, 0 if none
    peerNeedUpdate,  \* per peer: Peer.needRequestUpdate
    peakRequests,    \* per peer: Peer.peakRequests
    peerClosed,      \* per peer: Peer.closed
    chunkStage,      \* per peer and request index: where its transfer is
    dirtyChunks,     \* Torrent.dirtyChunks
    pendingWrites,   \* Piece.pendingWrites
    queuedForHash,   \* the piece was handed to queuePieceCheck
    peerPanic,       \* "" while the process runs, else the panic's message
    numChunks,       \* chunks in the piece, from the torrent's info
    PeerMaxRequests, \* per peer: Peer.PeerMaxRequests
    pieceAvailability, \* peers counted in the piece's availability
    ret,             \* what the latest call of a peer operation returned
    pendingAtReceipt, \* per peer and request index: Piece.pendingWrites as
                     \* the receipt now writing the chunk found it
    \* the requester goroutines of one webseed peer
    rpc,             \* where each requester is
    activeRequests,  \* webseedPeer.activeRequests (its keys)
    reqIndex,        \* per requester: the request it handles
    processedAnyRequests, \* per requester: the local of requester()
    lockHeld,        \* per requester: the local of requestResultHandler
    handlerErr,      \* per requester: what requestResultHandler returned
    \* the pieces of one torrent and the client's piece request order
    pieces,          \* per piece: the state of Torrent.pieces[i] the order depends on
    pieceRequestOrder, \* per piece: its item in cl.pieceRequestOrder, NoItem if absent
    storageCap,      \* Torrent.hasStorageCap()
    \* the wakeup of a webseed peer's requesters
    requesterWakeup, \* signals buffered in webseedPeer.requesterWakeup
    requesterClosed, \* webseedPeer.requesterClosed is closed
    iterated,        \* per requester: the requests its iteration was started on
    \* one call of a function that reads no state of the client
    call,            \* the arguments the function is called on
    result           \* what the call returned, NoResult until it returns

lockVars == <<internal, allowDefers, unlockActions, uniqueActions, pc, mode,
              i, startLen, waiters, eventWaiters, ch, waitImpl, panicked,
              ran, nDeferred, nRun, uniqueCalls, leftWaiting,
              torrentClosed, hashedPieces, readPos, readState, dropState,
              call, result>>

callVars == <<call, result>>

dropVars == <<torrentClosed, hashedPieces, readPos, readState, dropState>>

writerVars == <<wpc, writeBuffer, recentFill, keepAliveTimer, writeCondCh,
                woken, cnMu, clientMu, callerDefers, deferredTickle,
                needRequestUpdate, closed, filledSinceWake, useful, frontBuf>>

peerVars == <<requests, cancelled, validReceiveChunks, requestState,
              peerNeedUpdate, peakRequests, peerClosed, chunkStage,
              dirtyChunks, pendingWrites, queuedForHash, peerPanic,
              numChunks, PeerMaxRequests, pieceAvailability, ret,
              pendingAtReceipt>>

requesterVars == <<rpc, activeRequests, reqIndex, processedAnyRequests,
                   lockHeld, handlerErr>>

orderVars == <<pieces, pieceRequestOrder, storageCap>>

webseedVars == <<requesterWakeup, requesterClosed, iterated>>

vars == <<lockVars, writerVars, peerVars, requesterVars,
         orderVars,
         webseedVars>>

Goroutines == 1..NumGoroutines
Callbacks == {"f", "g", "h"}
Args == {"p", "q"}
NoArg == "none"

Peers == 1..NumPeers
RequestIndexes == 0..(numChunks - 1)
NoPeer == 0

\* PiecePriorityNone, the priority of a piece that is not wanted
PiecePriorityNone == 0

\* the last peer is a webseed, the others are peer connections
IsWebseed(p) == p = NumPeers

WebseedPeer == NumPeers

\* --------------------------------------------------------- pure functions

\* reflect.ValueOf(f).String() for f of static type func(): Value.String on a
\* non-string kind yields "<" + Type().String() + " Value>", whatever f is.
funcStr(f) == "<func() Value>"

unaryFuncKey(f, key) == [funcStr |-> funcStr(f), key |-> key]

Entry(f, arg, once) == [f |-> f, arg |-> arg, once |-> once]

Running(g) == pc[g] \in {"run_unlock", "run_flush", "run_event"}

Range(s) == {s[k] : k \in 1..Len(s)}

Total(cnt) == cnt["f"] + cnt["g"] + cnt["h"]

qVars == <<unlockActions, uniqueActions, uniqueCalls>>
runVars == <<i, startLen, ran>>
histVars == <<nDeferred, nRun>>
condVars == <<waiters, eventWaiters, ch, leftWaiting>>

\* ---------------------------------------------- the piece request order
Pieces == 0..(NumPieces - 1)

PiecePriorities == PiecePriorityNone..MaxPriority

NoItem == [present |-> FALSE]

Item(state) == [present |-> TRUE, state |-> state]

\* a piece as onSetInfo makes it
NewPiece == [priority |-> PiecePriorityNone, complete |-> FALSE,
             hashing |-> FALSE, availability |-> 0, partial |-> FALSE]

\* Torrent.requestStrategyPieceOrderState
requestStrategyPieceOrderState(ps, p) ==
    [Priority |-> ps[p].priority,
     Partial |-> ps[p].partial,
     Availability |-> ps[p].availability]

\* Torrent.ignorePieceForRequests: the piece is not to be requested now
ignorePieceForRequests(ps, p) == ps[p].hashing \/ ps[p].complete

\* PieceRequestOrder.Add: upsert, returns the previous state if any
proAdd(pro, key, state) ==
    [pro |-> [pro EXCEPT ![key] = Item(state)], old |-> pro[key]]

\* PieceRequestOrder.Delete: idempotent, returns whether an item went
proDelete(pro, key) ==
    [pro |-> [pro EXCEPT ![key] = NoItem], deleted |-> pro[key].present]

\* PieceRequestOrder.Update: moves the item the key has
proUpdate(pro, key, state) ==
    IF pro[key].present
    THEN [pro |-> [pro EXCEPT ![key] = Item(state)],
          changed |-> pro[key].state # state]
    ELSE [pro |-> pro, changed |-> FALSE]

\* updatePieceRequestOrderPiece with the delete branch left out
updatePieceRequestOrderPiece_NoDelete(ps, pro, cap, p) ==
    IF cap
    THEN proUpdate(pro, p, requestStrategyPieceOrderState(ps, p)).pro
    ELSE proAdd(pro, p, requestStrategyPieceOrderState(ps, p)).pro

\* Torrent.updatePieceRequestOrderPiece: the order it leaves
updatePieceRequestOrderPiece(ps, pro, cap, p) ==
    IF cap
    THEN proUpdate(pro, p, requestStrategyPieceOrderState(ps, p)).pro
    ELSE IF ~ignorePieceForRequests(ps, p)
         THEN proAdd(pro, p, requestStrategyPieceOrderState(ps, p)).pro
         ELSE proDelete(pro, p).pro

\* Torrent.addRequestOrderPiece
addRequestOrderPiece(ps, pro, cap, p) ==
    IF cap \/ ~ignorePieceForRequests(ps, p)
    THEN proAdd(pro, p, requestStrategyPieceOrderState(ps, p)).pro
    ELSE pro

\* the order after addRequestOrderPiece for every piece
RECURSIVE addRequestOrderPieces(_, _, _, _)
addRequestOrderPieces(ps, pro, cap, n) ==
    IF n = 0
    THEN pro
    ELSE addRequestOrderPiece(ps,
                              addRequestOrderPieces(ps, pro, cap, n - 1),
                              cap, n - 1)

OrderInit ==
    /\ storageCap = FALSE
    /\ pieces = [p \in Pieces |-> NewPiece]
    /\ pieceRequestOrder =
           addRequestOrderPieces(pieces, [p \in Pieces |-> NoItem],
                                 storageCap, NumPieces)

\* ------------------------------------------------------------------ Init
\* no function is being called; a call in progress has no result yet
NoCall == <<>>
NoResult == <<>>

LockStart ==
    /\ internal = 0
    /\ allowDefers = FALSE
    /\ unlockActions = <<>>
    /\ uniqueActions = {}
    /\ pc = [g \in Goroutines |-> "idle"]
    /\ mode = [g \in Goroutines |-> "none"]
    /\ i = 0
    /\ startLen = 0
    /\ waiters = <<>>
    /\ eventWaiters = <<>>
    /\ ch = [g \in Goroutines |-> "none"]
    /\ waitImpl \in {"safe", "internal"}
    /\ panicked = ""
    /\ ran = <<>>
    /\ nDeferred = [f \in Callbacks |-> 0]
    /\ nRun = [f \in Callbacks |-> 0]
    /\ uniqueCalls = <<>>
    /\ leftWaiting = [g \in Goroutines |-> 0]
    /\ torrentClosed = FALSE
    /\ hashedPieces = 0
    /\ readPos = 0
    /\ readState = "reading"
    /\ dropState = "start"

LockInit == LockStart /\ call = NoCall /\ result = NoResult

\* the lock layer at rest, for the state machines that do not drive it
LockIdle == LockInit /\ waitImpl = "safe"

\* peerConnMsgWriter after initMessageWriter, run() about to start: the
\* zero lastBufferFill is long ago, the timer is made on entry to run()
WriterInit ==
    /\ wpc = "top"
    /\ writeBuffer = "empty"
    /\ recentFill = FALSE
    /\ keepAliveTimer = "armed"
    /\ writeCondCh = "nil"
    /\ woken = FALSE
    /\ cnMu = "free"
    /\ clientMu = "free"
    /\ callerDefers = FALSE
    /\ deferredTickle = FALSE
    /\ needRequestUpdate = ""
    /\ closed = FALSE
    /\ filledSinceWake = FALSE
    /\ useful = FALSE
    /\ frontBuf = "empty"

\* the channels of a webseed peer as it is made, and no iteration begun
WebseedInit ==
    /\ requesterWakeup = 0
    /\ requesterClosed = FALSE
    /\ iterated = [g \in Goroutines |-> {}]

\* the requesters of a webseed peer as webseedPeer.start leaves them
RequesterInit ==
    /\ rpc = [g \in Goroutines |-> "start"]
    /\ activeRequests = {}
    /\ reqIndex = [g \in Goroutines |-> 0]
    /\ processedAnyRequests = [g \in Goroutines |-> FALSE]
    /\ lockHeld = [g \in Goroutines |-> FALSE]
    /\ handlerErr = [g \in Goroutines |-> ""]

NoReturn == [op |-> "", out |-> ""]

\* a torrent of one piece of n chunks with its peers just added, each
\* advertising a limit of reqq requests: nothing requested, nothing received
PeerInitOf(n, reqq) ==
    /\ numChunks = n
    /\ PeerMaxRequests = [p \in Peers |-> reqq]
    /\ pieceAvailability = NumPeers
    /\ ret = NoReturn
    /\ pendingAtReceipt = [p \in Peers |-> [r \in RequestIndexes |-> 0]]
    /\ requests = [p \in Peers |-> {}]
    /\ cancelled = [p \in Peers |-> {}]
    /\ validReceiveChunks = [p \in Peers |-> [r \in RequestIndexes |-> 0]]
    /\ requestState = [r \in RequestIndexes |-> NoPeer]
    /\ peerNeedUpdate = [p \in Peers |-> ""]
    /\ peakRequests = [p \in Peers |-> 0]
    /\ peerClosed = [p \in Peers |-> FALSE]
    /\ chunkStage = [p \in Peers |-> [r \in RequestIndexes |-> "none"]]
    /\ dirtyChunks = {}
    /\ pendingWrites = 0
    /\ queuedForHash = FALSE
    /\ peerPanic = ""

PeerInit == PeerInitOf(NumChunks, Reqq)

Init == LockInit /\ WriterInit /\ WebseedInit /\ OrderInit /\ PeerInit /\ RequesterInit

\* -------------------------------------------------- lockWithDeferreds

Panic(msg) ==
    /\ panicked' = msg
    /\ UNCHANGED <<internal, allowDefers, pc, mode, waitImpl,
                   qVars, runVars, histVars, condVars>>

\* Lock(): me.internal.Lock(); panicif.True(me.allowDefers); allowDefers = true
Lock(g) ==
    /\ panicked = ""
    /\ pc[g] = "idle"
    /\ internal = 0
    /\ IF allowDefers
       THEN Panic("Lock: allowDefers")
       ELSE /\ internal' = g
            /\ allowDefers' = TRUE
            /\ pc' = [pc EXCEPT ![g] = "locked"]
            /\ mode' = [mode EXCEPT ![g] = "defer"]
            /\ UNCHANGED <<waitImpl, panicked, qVars, runVars, histVars,
                           condVars>>

\* cl._mu.internal.Lock(): the raw write lock, no flag and no assertion
RawLock(g) ==
    /\ panicked = ""
    /\ pc[g] = "idle"
    /\ internal = 0
    /\ internal' = g
    /\ pc' = [pc EXCEPT ![g] = "locked"]
    /\ mode' = [mode EXCEPT ![g] = "raw"]
    /\ UNCHANGED <<allowDefers, waitImpl, panicked, qVars, runVars, histVars,
                   condVars>>

\* cl._mu.internal.Unlock() ending a raw critical section
RawUnlock(g) ==
    /\ panicked = ""
    /\ pc[g] = "locked"
    /\ mode[g] = "raw"
    /\ internal' = 0
    /\ pc' = [pc EXCEPT ![g] = "idle"]
    /\ mode' = [mode EXCEPT ![g] = "none"]
    /\ UNCHANGED <<allowDefers, waitImpl, panicked, qVars, runVars, histVars,
                   condVars>>

\* deferInner's append
deferInner(q, action) == Append(q, action)

\* Defer(action): panicif.False(me.allowDefers); append
Defer(g, f) ==
    /\ panicked = ""
    /\ pc[g] = "locked"
    /\ mode[g] = "defer"
    /\ Total(nDeferred) < MaxDefers
    /\ IF ~allowDefers
       THEN Panic("deferInner: !allowDefers")
       ELSE /\ unlockActions' = deferInner(unlockActions, Entry(f, NoArg, FALSE))
            /\ nDeferred' = [nDeferred EXCEPT ![f] = @ + 1]
            /\ UNCHANGED <<internal, allowDefers, pc, mode, waitImpl, panicked,
                           uniqueActions, uniqueCalls, runVars, nRun, condVars>>

deferOnceInner_NoContainsCheck(keys, q, key, action) ==
    [keys |-> keys \cup {key}, q |-> deferInner(q, action)]

\* deferOnceInner after its assertion: drop the action when the key is
\* already registered, else register the key and append the action
deferOnceInner(keys, q, key, action) ==
    IF key \in keys
    THEN [keys |-> keys, q |-> q]
    ELSE [keys |-> keys \cup {key}, q |-> deferInner(q, action)]

\* DeferUniqueUnaryFunc(arg, action)
DeferUniqueUnaryFunc(g, arg, f) ==
    /\ panicked = ""
    /\ pc[g] = "locked"
    /\ mode[g] = "defer"
    /\ Total(nDeferred) < MaxDefers
    /\ Len(uniqueCalls) < MaxDefers
    /\ IF ~allowDefers
       THEN Panic("deferOnceInner: !allowDefers")
       ELSE LET r == deferOnceInner(uniqueActions, unlockActions,
                                    unaryFuncKey(f, arg), Entry(f, arg, TRUE))
            IN /\ unlockActions' = r.q
               /\ uniqueActions' = r.keys
               /\ uniqueCalls' = Append(uniqueCalls, <<f, arg>>)
               /\ nDeferred' = [nDeferred EXCEPT ![f] =
                                   @ + Len(r.q) - Len(unlockActions)]
               /\ UNCHANGED <<internal, allowDefers, pc, mode, waitImpl,
                              panicked, runVars, nRun, condVars>>

\* Unlock() up to the call of runUnlockActions
UnlockBegin(g) ==
    /\ panicked = ""
    /\ pc[g] = "locked"
    /\ mode[g] = "defer"
    /\ IF ~allowDefers
       THEN Panic("Unlock: !allowDefers")
       ELSE /\ allowDefers' = FALSE
            /\ pc' = [pc EXCEPT ![g] = "run_unlock"]
            /\ i' = 0
            /\ startLen' = Len(unlockActions)
            /\ ran' = <<>>
            /\ UNCHANGED <<internal, mode, waitImpl, panicked, qVars, histVars,
                           condVars>>

\* FlushDeferred() up to the call of runUnlockActions
FlushDeferred(g) ==
    /\ panicked = ""
    /\ pc[g] = "locked"
    /\ mode[g] = "defer"
    /\ IF ~allowDefers
       THEN Panic("FlushDeferred: !allowDefers")
       ELSE /\ pc' = [pc EXCEPT ![g] = "run_flush"]
            /\ i' = 0
            /\ startLen' = Len(unlockActions)
            /\ ran' = <<>>
            /\ UNCHANGED <<internal, allowDefers, mode, waitImpl, panicked,
                           qVars, histVars, condVars>>

\* one iteration of runUnlockActions' loop: me.unlockActions[i]().
\* Callback h itself calls Defer(f); f and g touch nothing of the lock.
RunAction(g) ==
    /\ panicked = ""
    /\ Running(g)
    /\ i < Len(unlockActions)
    /\ LET a == unlockActions[i + 1] IN
       IF a.f = "h" /\ ~allowDefers
       THEN /\ panicked' = "deferInner: !allowDefers"
            /\ i' = i + 1
            /\ ran' = Append(ran, a)
            /\ nRun' = [nRun EXCEPT ![a.f] = @ + 1]
            /\ UNCHANGED <<internal, allowDefers, pc, mode, waitImpl, qVars,
                           startLen, nDeferred, condVars>>
       ELSE /\ i' = i + 1
            /\ ran' = Append(ran, a)
            /\ nRun' = [nRun EXCEPT ![a.f] = @ + 1]
            /\ IF a.f = "h"
               THEN /\ unlockActions' =
                           deferInner(unlockActions, Entry("f", NoArg, FALSE))
                    /\ nDeferred' = [nDeferred EXCEPT !["f"] = @ + 1]
               ELSE UNCHANGED <<unlockActions, nDeferred>>
            /\ UNCHANGED <<internal, allowDefers, pc, mode, waitImpl, panicked,
                           uniqueActions, uniqueCalls, startLen, condVars>>

clearActions_KeepQueue(q) == q

\* me.unlockActions = me.unlockActions[:0]
clearActions(q) == SubSeq(q, 1, 0)

\* the end of runUnlockActions: the length check, the two resets, and the
\* return into Unlock or FlushDeferred
RunEnd(g) ==
    /\ panicked = ""
    /\ Running(g)
    /\ i = Len(unlockActions)
    /\ IF startLen # Len(unlockActions)
       THEN Panic("num deferred changed while running")
       ELSE /\ unlockActions' = clearActions(unlockActions)
            /\ uniqueActions' = {}
            /\ uniqueCalls' = <<>>
            /\ pc' = [pc EXCEPT ![g] =
                         CASE pc[g] = "run_unlock" -> "releasing"
                           [] pc[g] = "run_event" -> "releasing_event"
                           [] OTHER -> "locked"]
            /\ UNCHANGED <<internal, allowDefers, mode, waitImpl, panicked,
                           runVars, histVars, condVars>>

\* the last statement of Unlock(): me.internal.Unlock()
UnlockRelease(g) ==
    /\ panicked = ""
    /\ pc[g] \in {"releasing", "releasing_event"}
    /\ internal' = 0
    /\ pc' = [pc EXCEPT ![g] =
                 IF pc[g] = "releasing" THEN "idle" ELSE "ewaiting"]
    /\ mode' = [mode EXCEPT ![g] =
                   IF pc[g] = "releasing" THEN "none" ELSE @]
    /\ UNCHANGED <<allowDefers, waitImpl, panicked, qVars, runVars, histVars,
                   condVars>>

\* receiveChunkImpl's release around the storage write, and the webseed
\* requester's release around its fetch: cl._mu.internal.Unlock() by a
\* goroutine that holds the client lock in whichever mode it took it
IoRelease(g) ==
    /\ panicked = ""
    /\ pc[g] = "locked"
    /\ internal' = 0
    /\ pc' = [pc EXCEPT ![g] = "io"]
    /\ UNCHANGED <<allowDefers, mode, waitImpl, panicked, qVars, runVars,
                   histVars, condVars>>

\* the matching cl._mu.internal.Lock()
IoReacquire(g) ==
    /\ panicked = ""
    /\ pc[g] = "io"
    /\ internal = 0
    /\ internal' = g
    /\ pc' = [pc EXCEPT ![g] = "locked"]
    /\ UNCHANGED <<allowDefers, mode, waitImpl, panicked, qVars, runVars,
                   histVars, condVars>>

\* ------------------------------------------------------------ compatCond

WaitRegister_ChannelNotQueued(g) ==
    /\ panicked = ""
    /\ pc[g] = "locked"
    /\ mode[g] = "defer"
    /\ ch' = [ch EXCEPT ![g] = "open"]
    /\ pc' = [pc EXCEPT ![g] = "registered"]
    /\ leftWaiting' = [leftWaiting EXCEPT ![g] = 0]
    /\ UNCHANGED <<internal, allowDefers, mode, waitImpl, panicked, qVars,
                   runVars, histVars, eventWaiters, waiters>>

\* Wait() up to the release of c.L: make the channel, append it to c.waiters
WaitRegister(g) ==
    /\ panicked = ""
    /\ pc[g] = "locked"
    /\ mode[g] = "defer"
    /\ waiters' = Append(waiters, g)
    /\ ch' = [ch EXCEPT ![g] = "open"]
    /\ pc' = [pc EXCEPT ![g] = "registered"]
    /\ leftWaiting' = [leftWaiting EXCEPT ![g] = 0]
    /\ UNCHANGED <<internal, allowDefers, mode, waitImpl, panicked, qVars,
                   runVars, histVars, eventWaiters>>

SafeUnlock_RunningActions(g, to) ==
    /\ IF ~allowDefers
       THEN Panic("SafeUnlock: !allowDefers")
       ELSE /\ allowDefers' = FALSE
            /\ internal' = 0
            /\ pc' = [pc EXCEPT ![g] = to]
            /\ unlockActions' = <<>>
            /\ uniqueActions' = {}
            /\ uniqueCalls' = <<>>
            /\ nRun' = [f \in Callbacks |->
                          nRun[f] + Cardinality({k \in 1..Len(unlockActions) :
                                                    unlockActions[k].f = f})]
            /\ UNCHANGED <<mode, waitImpl, panicked, runVars, nDeferred,
                           condVars>>

\* SafeUnlock(): assert the flag, clear it, free the mutex; the queue stays
SafeUnlock(g, to) ==
    /\ IF ~allowDefers
       THEN Panic("SafeUnlock: !allowDefers")
       ELSE /\ allowDefers' = FALSE
            /\ internal' = 0
            /\ pc' = [pc EXCEPT ![g] = to]
            /\ UNCHANGED <<mode, waitImpl, panicked, qVars, runVars, histVars,
                           condVars>>

\* SafeLock(): take the mutex, assert the flag is clear, set it
SafeLock(g, to) ==
    /\ internal = 0
    /\ IF allowDefers
       THEN Panic("SafeLock: allowDefers")
       ELSE /\ internal' = g
            /\ allowDefers' = TRUE
            /\ pc' = [pc EXCEPT ![g] = to]
            /\ UNCHANGED <<mode, waitImpl, panicked, qVars, runVars, histVars,
                           condVars>>

\* Wait() releasing c.L: l.SafeUnlock() in compatcond.go, lwd.internal.Unlock()
\* in the other copy of Wait the tree carries
WaitRelease(g) ==
    /\ panicked = ""
    /\ pc[g] = "registered"
    /\ IF waitImpl = "safe"
       THEN SafeUnlock(g, "waiting")
       ELSE /\ internal' = 0
            /\ pc' = [pc EXCEPT ![g] = "waiting"]
            /\ UNCHANGED <<allowDefers, mode, waitImpl, panicked, qVars,
                           runVars, histVars, condVars>>

\* Wait() after <-ch: l.SafeLock(), or lwd.internal.Lock() in the other copy
WaitReacquire(g) ==
    /\ panicked = ""
    /\ pc[g] = "waiting"
    /\ ch[g] = "closed"
    /\ IF waitImpl = "safe"
       THEN SafeLock(g, "locked")
       ELSE /\ internal = 0
            /\ internal' = g
            /\ pc' = [pc EXCEPT ![g] = "locked"]
            /\ UNCHANGED <<allowDefers, mode, waitImpl, panicked, qVars,
                           runVars, histVars, condVars>>

signalIndex_Oldest(ws) == 1

\* Signal pops the last element of c.waiters
signalIndex(ws) == Len(ws)

\* Signal(): nothing without a waiter, else pop one waiter and close it
Signal ==
    /\ panicked = ""
    /\ IF Len(waiters) > 0
       THEN LET k == signalIndex(waiters) IN
            /\ ch' = [ch EXCEPT ![waiters[k]] = "closed"]
            /\ waiters' = SubSeq(waiters, 1, k - 1)
                            \o SubSeq(waiters, k + 1, Len(waiters))
            /\ leftWaiting' = [leftWaiting EXCEPT ![waiters[k]] =
                                   Len(waiters) - 1]
       ELSE UNCHANGED <<waiters, ch, leftWaiting>>
    /\ UNCHANGED <<internal, allowDefers, pc, mode, waitImpl, panicked, qVars,
                   runVars, histVars, eventWaiters>>

\* Broadcast(): close every waiter, c.waiters = nil
Broadcast ==
    /\ panicked = ""
    /\ ch' = [g \in Goroutines |->
                 IF g \in Range(waiters) THEN "closed" ELSE ch[g]]
    /\ waiters' = <<>>
    /\ UNCHANGED <<internal, allowDefers, pc, mode, waitImpl, panicked, qVars,
                   runVars, histVars, eventWaiters, leftWaiting>>

\* ----------------------------------------------------------------- Event

\* Event.Wait(clientMu) up to clientMu.Unlock(): register the channel
EventWaitRegister(g) ==
    /\ panicked = ""
    /\ pc[g] = "locked"
    /\ mode[g] = "defer"
    /\ eventWaiters' = Append(eventWaiters, g)
    /\ ch' = [ch EXCEPT ![g] = "open"]
    /\ pc' = [pc EXCEPT ![g] = "eregistered"]
    /\ UNCHANGED <<internal, allowDefers, mode, waitImpl, panicked, qVars,
                   runVars, histVars, waiters, leftWaiting>>

\* Event.Wait's clientMu.Unlock(), clientMu being the client lock: Unlock()
\* up to the call of runUnlockActions
EventWaitUnlock(g) ==
    /\ panicked = ""
    /\ pc[g] = "eregistered"
    /\ IF ~allowDefers
       THEN Panic("Unlock: !allowDefers")
       ELSE /\ allowDefers' = FALSE
            /\ pc' = [pc EXCEPT ![g] = "run_event"]
            /\ i' = 0
            /\ startLen' = Len(unlockActions)
            /\ ran' = <<>>
            /\ UNCHANGED <<internal, mode, waitImpl, panicked, qVars, histVars,
                           condVars>>

\* Event.Wait after <-ch: clientMu.Lock()
EventWaitLock(g) ==
    /\ panicked = ""
    /\ pc[g] = "ewaiting"
    /\ ch[g] = "closed"
    /\ internal = 0
    /\ IF allowDefers
       THEN Panic("Lock: allowDefers")
       ELSE /\ internal' = g
            /\ allowDefers' = TRUE
            /\ pc' = [pc EXCEPT ![g] = "locked"]
            /\ UNCHANGED <<mode, waitImpl, panicked, qVars, runVars, histVars,
                           condVars>>

EventBroadcast_ClosesNothing ==
    /\ panicked = ""
    /\ eventWaiters' = <<>>
    /\ UNCHANGED <<internal, allowDefers, pc, mode, waitImpl, panicked, qVars,
                   runVars, histVars, waiters, leftWaiting, ch>>

\* Event.Broadcast(): take the waiters, e.waiters = nil, close each
EventBroadcast ==
    /\ panicked = ""
    /\ ch' = [g \in Goroutines |->
                 IF g \in Range(eventWaiters) THEN "closed" ELSE ch[g]]
    /\ eventWaiters' = <<>>
    /\ UNCHANGED <<internal, allowDefers, pc, mode, waitImpl, panicked, qVars,
                   runVars, histVars, waiters, leftWaiting>>

LockNext ==
    \/ \E g \in Goroutines :
        \/ Lock(g)
        \/ RawLock(g)
        \/ RawUnlock(g)
        \/ \E f \in Callbacks : Defer(g, f)
        \/ \E f \in Callbacks, arg \in Args : DeferUniqueUnaryFunc(g, arg, f)
        \/ UnlockBegin(g)
        \/ FlushDeferred(g)
        \/ RunAction(g)
        \/ RunEnd(g)
        \/ UnlockRelease(g)
        \/ IoRelease(g)
        \/ IoReacquire(g)
        \/ WaitRegister(g)
        \/ WaitRelease(g)
        \/ WaitReacquire(g)
        \/ EventWaitRegister(g)
        \/ EventWaitUnlock(g)
        \/ EventWaitLock(g)
    \/ Signal
    \/ Broadcast
    \/ EventBroadcast

\* ============================================ peerConnMsgWriter and callers

\* cn.writeBuffer.Len() < writeBufferHighWaterLen
bufferHasSpace(b) == b # "full"

\* cn.writeBuffer.Len() > writeBufferLowWaterLen, fillWriteBuffer's early exit
aboveLowWater(b) == b \in {"mid", "full"}

\* the levels a buffer at level b can have after more bytes are written to it
Grown(b) ==
    CASE b = "empty" -> {"low", "mid", "full"}
      [] b = "low" -> {"low", "mid", "full"}
      [] b = "mid" -> {"mid", "full"}
      [] OTHER -> {"full"}

\* writeCond.Broadcast(): close and forget the channel writeCond holds, if any
CondBroadcast ==
    IF writeCondCh = "open"
    THEN /\ writeCondCh' = "nil"
         /\ woken' = (wpc = "blocked")
    ELSE UNCHANGED <<writeCondCh, woken>>

\* run()'s condition for calling fillWriteBuffer in an iteration
shouldFill(hasSpace, shouldCoalesce) == hasSpace /\ ~shouldCoalesce

\* run(): the head of an iteration, up to the decision to fill
WriterTop ==
    /\ wpc = "top"
    /\ IF closed
       THEN /\ wpc' = "exited"
            /\ UNCHANGED <<writeBuffer, recentFill, keepAliveTimer, writeCondCh,
                           woken, cnMu, clientMu, callerDefers, deferredTickle,
                           needRequestUpdate, closed, filledSinceWake>>
       ELSE /\ cnMu = "free"
            /\ wpc' = IF shouldFill(bufferHasSpace(writeBuffer), recentFill)
                      THEN "fill" ELSE "check"
            /\ UNCHANGED <<writeBuffer, recentFill, keepAliveTimer, writeCondCh,
                           woken, cnMu, clientMu, callerDefers, deferredTickle,
                           needRequestUpdate, closed, filledSinceWake>>
    /\ UNCHANGED <<useful, frontBuf>>

\* the fillWriteBuffer closure under the client lock, then the stamp of
\* lastBufferFill.  pc.fillWriteBuffer first runs the request scheduler
\* (maybeUpdateActualRequestState: nothing without a reason, else the request
\* state is applied, request messages are written and the reason is cleared)
\* and only then looks at the buffer level before writing anything more.
WriterFill ==
    /\ wpc = "fill"
    /\ clientMu = "free"
    /\ wpc' = "check"
    /\ recentFill' = TRUE
    /\ filledSinceWake' = TRUE
    /\ IF closed
       THEN UNCHANGED <<writeBuffer, writeCondCh, woken, needRequestUpdate>>
       ELSE \E wrote \in BOOLEAN :
               /\ needRequestUpdate' = ""
               /\ wrote => (needRequestUpdate # "" \/ ~aboveLowWater(writeBuffer))
               /\ IF wrote
                  THEN /\ writeBuffer' \in Grown(writeBuffer)
                       /\ CondBroadcast
                  ELSE UNCHANGED <<writeBuffer, writeCondCh, woken>>
    /\ UNCHANGED <<keepAliveTimer, cnMu, clientMu, callerDefers, deferredTickle,
                   closed>>
    /\ UNCHANGED <<useful, frontBuf>>

\* run() after the fill: with a non-empty buffer flip the buffers and go to
\* write; with an empty one and the keep-alive time reached take cn.mu and
\* ask keepAlive(); else obtain writeCond's channel and block
WriterCheck ==
    /\ wpc = "check"
    /\ cnMu = "free"
    /\ IF writeBuffer # "empty"
       THEN /\ wpc' = "write"
            /\ writeBuffer' = "empty"
            /\ frontBuf' = "data"
            /\ UNCHANGED <<writeCondCh, woken, cnMu>>
       ELSE IF keepAliveTimer # "armed"
            THEN /\ wpc' = "keepalive"
                 /\ cnMu' = "writer"
                 /\ UNCHANGED <<writeBuffer, writeCondCh, woken, frontBuf>>
            ELSE /\ wpc' = "blocked"
                 /\ writeCondCh' = "open"
                 /\ woken' = FALSE
                 /\ UNCHANGED <<writeBuffer, cnMu, frontBuf>>
    /\ UNCHANGED <<recentFill, keepAliveTimer, clientMu, callerDefers,
                   deferredTickle, needRequestUpdate, closed, filledSinceWake,
                   useful>>

\* run()'s decision to append a keep-alive to the write buffer
appendsKeepAlive_WhateverThePeer(bufferEmpty, elapsed, isUseful) ==
    bufferEmpty /\ elapsed

appendsKeepAlive(bufferEmpty, elapsed, isUseful) ==
    bufferEmpty /\ elapsed /\ isUseful

\* cn.keepAlive() with cn.mu held: pc.useful() under the client read lock;
\* a useful peer gets a keep-alive appended and the buffers are flipped,
\* else the writer blocks
WriterKeepAlive ==
    /\ wpc = "keepalive"
    /\ clientMu = "free"
    /\ cnMu' = "free"
    /\ IF appendsKeepAlive(writeBuffer = "empty", keepAliveTimer # "armed",
                           useful)
       THEN /\ wpc' = "write"
            /\ frontBuf' = "keepalive"
            /\ UNCHANGED <<writeCondCh, woken>>
       ELSE /\ wpc' = "blocked"
            /\ writeCondCh' = "open"
            /\ woken' = FALSE
            /\ UNCHANGED frontBuf
    /\ UNCHANGED <<writeBuffer, recentFill, keepAliveTimer, clientMu,
                   callerDefers, deferredTickle, needRequestUpdate, closed,
                   filledSinceWake, useful>>

\* the select of a blocked writer: closed, writeCond's channel, or the timer
WriterWake ==
    /\ wpc = "blocked"
    /\ closed \/ woken \/ keepAliveTimer = "fired"
    /\ \/ /\ closed \/ woken
          /\ UNCHANGED keepAliveTimer
       \/ /\ keepAliveTimer = "fired"
          /\ keepAliveTimer' = "consumed"
    /\ wpc' = "top"
    /\ filledSinceWake' = FALSE
    /\ UNCHANGED <<writeBuffer, recentFill, writeCondCh, woken, cnMu, clientMu,
                   callerDefers, deferredTickle, needRequestUpdate, closed>>
    /\ UNCHANGED <<useful, frontBuf>>

\* the write of the front buffer: an error ends run(), whose caller then
\* closes the connection; success stamps lastWrite and resets the timer
WriterWrite ==
    /\ wpc = "write"
    /\ \E ok \in BOOLEAN :
          IF ok
          THEN /\ wpc' = "top"
               /\ keepAliveTimer' = "armed"
               /\ UNCHANGED closed
          ELSE /\ wpc' = "exited"
               /\ closed' = TRUE
               /\ UNCHANGED keepAliveTimer
    /\ frontBuf' = "empty"
    /\ UNCHANGED <<writeBuffer, recentFill, writeCondCh, woken, cnMu, clientMu,
                   callerDefers, deferredTickle, needRequestUpdate,
                   filledSinceWake, useful>>

\* some other goroutine takes the client lock: Lock() or internal.Lock()
CallerLock(defers) ==
    /\ clientMu = "free"
    /\ wpc # "exited"
    /\ clientMu' = "caller"
    /\ callerDefers' = defers
    /\ UNCHANGED <<wpc, writeBuffer, recentFill, keepAliveTimer, writeCondCh,
                   woken, cnMu, deferredTickle, needRequestUpdate, closed,
                   filledSinceWake>>
    /\ UNCHANGED <<useful, frontBuf>>

\* Peer.updateRequests(reason) by the lock holder, with the connection's
\* handler: nothing if a reason is already set; else set it and, when the
\* lock allows deferring, queue handleOnNeedUpdateRequests once for unlock,
\* otherwise tickle the writer now
updateRequests(reason) ==
    /\ clientMu = "caller"
    /\ ~closed
    /\ needRequestUpdate = ""
    /\ needRequestUpdate' = reason
    /\ IF callerDefers
       THEN /\ deferredTickle' = TRUE
            /\ UNCHANGED <<writeCondCh, woken>>
       ELSE /\ CondBroadcast
            /\ UNCHANGED deferredTickle
    /\ UNCHANGED <<wpc, writeBuffer, recentFill, keepAliveTimer, cnMu, clientMu,
                   callerDefers, closed, filledSinceWake>>
    /\ UNCHANGED <<useful, frontBuf>>

\* the lock holder calls write(msg), which starts with cn.mu.Lock()
CallerCallsWrite ==
    /\ clientMu = "caller"
    /\ ~closed
    /\ clientMu' = "caller in write"
    /\ UNCHANGED <<wpc, writeBuffer, recentFill, keepAliveTimer, writeCondCh,
                   woken, cnMu, callerDefers, deferredTickle,
                   needRequestUpdate, closed, filledSinceWake, useful,
                   frontBuf>>

\* write(msg) once it has cn.mu: append, Broadcast, and the deferred Unlock
CallerWrite ==
    /\ clientMu = "caller in write"
    /\ cnMu = "free"
    /\ clientMu' = "caller"
    /\ writeBuffer' \in Grown(writeBuffer)
    /\ CondBroadcast
    /\ UNCHANGED <<wpc, recentFill, keepAliveTimer, cnMu,
                   callerDefers, deferredTickle, needRequestUpdate, closed,
                   filledSinceWake, useful, frontBuf>>

\* the lock holder changes what pc.useful() depends on (our interest in the
\* peer, the peer's interest in us)
UsefulChanges ==
    /\ clientMu = "caller"
    /\ ~closed
    /\ useful' = ~useful
    /\ UNCHANGED <<wpc, writeBuffer, recentFill, keepAliveTimer, writeCondCh,
                   woken, cnMu, clientMu, callerDefers, deferredTickle,
                   needRequestUpdate, closed, filledSinceWake, frontBuf>>

\* the holder releases the client lock; Unlock() first runs the queued
\* handleOnNeedUpdateRequests, which tickles the writer
CallerUnlock ==
    /\ clientMu = "caller"
    /\ clientMu' = "free"
    /\ callerDefers' = FALSE
    /\ deferredTickle' = FALSE
    /\ IF deferredTickle
       THEN CondBroadcast
       ELSE UNCHANGED <<writeCondCh, woken>>
    /\ UNCHANGED <<wpc, writeBuffer, recentFill, keepAliveTimer, cnMu,
                   needRequestUpdate, closed, filledSinceWake>>
    /\ UNCHANGED <<useful, frontBuf>>

\* Peer.close by the lock holder
CallerClose ==
    /\ clientMu = "caller"
    /\ ~closed
    /\ closed' = TRUE
    /\ UNCHANGED <<wpc, writeBuffer, recentFill, keepAliveTimer, writeCondCh,
                   woken, cnMu, clientMu, callerDefers, deferredTickle,
                   needRequestUpdate, filledSinceWake>>
    /\ UNCHANGED <<useful, frontBuf>>

\* minFillGap elapses since lastBufferFill
FillGapElapses ==
    /\ recentFill
    /\ recentFill' = FALSE
    /\ UNCHANGED <<wpc, writeBuffer, keepAliveTimer, writeCondCh, woken, cnMu,
                   clientMu, callerDefers, deferredTickle, needRequestUpdate,
                   closed, filledSinceWake>>
    /\ UNCHANGED <<useful, frontBuf>>

\* keepAliveTimeout elapses since the timer was made or reset
TimerFires ==
    /\ keepAliveTimer = "armed"
    /\ wpc # "exited"
    /\ keepAliveTimer' = "fired"
    /\ UNCHANGED <<wpc, writeBuffer, recentFill, writeCondCh, woken, cnMu,
                   clientMu, callerDefers, deferredTickle, needRequestUpdate,
                   closed, filledSinceWake>>
    /\ UNCHANGED <<useful, frontBuf>>

Reasons == {"Peer.cancel", "Peer.remoteRejectedRequest"}

WriterSteps ==
    \/ WriterTop
    \/ WriterFill
    \/ WriterCheck
    \/ WriterKeepAlive
    \/ WriterWake
    \/ WriterWrite

WriterNext ==
    \/ WriterSteps
    \/ \E defers \in BOOLEAN : CallerLock(defers)
    \/ \E reason \in Reasons : updateRequests(reason)
    \/ CallerCallsWrite
    \/ CallerWrite
    \/ UsefulChanges
    \/ CallerUnlock
    \/ CallerClose
    \/ FillGapElapses
    \/ TimerFires

\* =========================================== peers of one torrent: requests

maxInt(a, b) == IF a > b THEN a ELSE b

minInt(a, b) == IF a < b THEN a ELSE b

writeBufferHighWaterLen == 131072

writeBufferLowWaterLen == writeBufferHighWaterLen \div 2

\* lengths of a marshalled Interested and of a marshalled Request message
interestedMsgLen == 5

requestMsgLen == 17

maxLocalToRemoteRequests ==
    (writeBufferHighWaterLen - writeBufferLowWaterLen - interestedMsgLen)
        \div requestMsgLen

\* the request bookkeeping the operations below read and change, as one value
PeerState ==
    [requests |-> requests, cancelled |-> cancelled,
     validReceiveChunks |-> validReceiveChunks, requestState |-> requestState,
     needRequestUpdate |-> peerNeedUpdate, peakRequests |-> peakRequests,
     chunkStage |-> chunkStage, panic |-> peerPanic]

SetPeerState(s) ==
    /\ requests' = s.requests
    /\ cancelled' = s.cancelled
    /\ validReceiveChunks' = s.validReceiveChunks
    /\ requestState' = s.requestState
    /\ peerNeedUpdate' = s.needRequestUpdate
    /\ peakRequests' = s.peakRequests
    /\ chunkStage' = s.chunkStage
    /\ peerPanic' = s.panic

torrentVars == <<dirtyChunks, pendingWrites, queuedForHash>>

\* what only the close of a peer changes
infoVars == <<numChunks, PeerMaxRequests, pieceAvailability>>

peerPanics(s, msg) == [s EXCEPT !.panic = msg]

\* Peer.updateRequests: only the first reason counts.  handleUpdateRequests
\* wakes the writer of a peer connection and runs the scheduler of a webseed;
\* what the scheduler then does is AddRequest and applyRequestState below.
updateRequestsOf_Overwrites(s, cn, reason) ==
    [s EXCEPT !.needRequestUpdate[cn] = reason]

updateRequestsOf(s, cn, reason) ==
    IF s.needRequestUpdate[cn] # "" THEN s
    ELSE [s EXCEPT !.needRequestUpdate[cn] = reason]

isLowOnRequests(s, p) == s.requests[p] = {} /\ s.cancelled[p] = {}

decPeakRequests(s, p) == [s EXCEPT !.peakRequests[p] = @ - 1]

nominalMaxRequests_NoFloor(s, cn) ==
    minInt(PeerMaxRequests[cn],
           minInt(s.peakRequests[cn] * 2, maxLocalToRemoteRequests))

nominalMaxRequests(s, cn) ==
    maxInt(1, minInt(PeerMaxRequests[cn],
                     minInt(s.peakRequests[cn] * 2, maxLocalToRemoteRequests)))

\* what the peer and the piece look like to shouldRequest at a call:
\* peerHasPiece, peerChoking, peerAllowedFast.Contains, hashingPiece,
\* pieceQueuedForHash
RequestEnv(has, choking, fast, hashing, queued) ==
    [has |-> has, choking |-> choking, fast |-> fast, hashing |-> hashing,
     queued |-> queued]

\* shouldRequest: the error it returns ("" for nil) and the message it panics
\* with ("" when it returns).  The peer is active and open, see AddRequest.
shouldRequest_IgnoreCancelled(s, cn, r, env) == [err |-> "", panic |-> ""]

shouldRequest(s, cn, r, env) ==
    IF r \in s.cancelled[cn]
    THEN [err |-> "request is cancelled and waiting acknowledgement",
          panic |-> ""]
    ELSE IF ~env.has
    THEN [err |-> "requesting piece peer doesn't have", panic |-> ""]
    ELSE IF env.hashing
    THEN [err |-> "", panic |-> "piece is being hashed"]
    ELSE IF env.queued
    THEN [err |-> "", panic |-> "piece is queued for hash"]
    ELSE IF env.choking /\ ~env.fast /\ r \notin s.requests[cn]
    THEN [err |-> "", panic |-> "peer choking and piece not allowed fast"]
    ELSE [err |-> "", panic |-> ""]

\* Peer.request: the state after the call and what it returned, "added" and
\* "present" standing for the two returns without an error
request_ReceiptNotExpected(s, cn, r, env) ==
    LET should == shouldRequest(s, cn, r, env) IN
    IF should.panic # ""
    THEN [s |-> peerPanics(s, should.panic), out |-> "panic"]
    ELSE IF should.err # "" THEN [s |-> s, out |-> should.err]
    ELSE IF r \in s.requests[cn] THEN [s |-> s, out |-> "present"]
    ELSE IF Cardinality(s.requests[cn]) >= nominalMaxRequests(s, cn)
    THEN [s |-> s, out |-> "too many outstanding requests"]
    ELSE [s |-> [s EXCEPT !.requests[cn] = @ \cup {r},
                          !.requestState[r] = cn],
          out |-> "added"]

request(s, cn, r, env) ==
    LET should == shouldRequest(s, cn, r, env) IN
    IF should.panic # ""
    THEN [s |-> peerPanics(s, should.panic), out |-> "panic"]
    ELSE IF should.err # "" THEN [s |-> s, out |-> should.err]
    ELSE IF r \in s.requests[cn] THEN [s |-> s, out |-> "present"]
    ELSE IF Cardinality(s.requests[cn]) >= nominalMaxRequests(s, cn)
    THEN [s |-> s, out |-> "too many outstanding requests"]
    ELSE [s |-> [s EXCEPT !.requests[cn] = @ \cup {r},
                          !.validReceiveChunks[cn][r] = @ + 1,
                          !.requestState[r] = cn],
          out |-> "added"]

\* the state after the call and whether a request was removed
deleteRequest(s, c, r) ==
    IF r \notin s.requests[c] THEN [s |-> s, ok |-> FALSE]
    ELSE LET s1 == [s EXCEPT !.requests[c] = @ \ {r}] IN
         IF s1.requestState[r] # c
         THEN [s |-> peerPanics(s1,
                   "only one peer should have a given request at a time"),
               ok |-> TRUE]
         ELSE [s |-> [s1 EXCEPT !.requestState[r] = NoPeer], ok |-> TRUE]

\* legacyPeerImpl._cancel: a peer connection sends Cancel and expects the
\* remote to acknowledge; a webseed cancels the transfer if one is active
cancelImpl_WebseedNeverAcks(s, p, r) == [s |-> s, ack |-> ~IsWebseed(p)]

cancelImpl(s, p, r) ==
    IF ~IsWebseed(p) THEN [s |-> s, ack |-> TRUE]
    ELSE IF s.chunkStage[p][r] = "none" THEN [s |-> s, ack |-> FALSE]
    ELSE [s |-> [s EXCEPT !.chunkStage[p][r] =
                     IF @ = "fetching" THEN "cancelled" ELSE @],
          ack |-> TRUE]

cancel(s, me, r) ==
    LET d == deleteRequest(s, me, r) IN
    IF ~d.ok
    THEN peerPanics(d.s, "request not existing should have been guarded")
    ELSE IF d.s.panic # "" THEN d.s
    ELSE LET a == cancelImpl(d.s, me, r) IN
         IF a.ack /\ r \in a.s.cancelled[me]
         THEN peerPanics(a.s, "request already cancelled")
         ELSE LET s2 == IF a.ack
                        THEN [a.s EXCEPT !.cancelled[me] = @ \cup {r}]
                        ELSE a.s
                  s3 == decPeakRequests(s2, me)
              IN  IF isLowOnRequests(s3, me)
                  THEN updateRequestsOf(s3, me, "Peer.cancel")
                  ELSE s3

decExpectedChunkReceive(s, c, r) ==
    IF s.validReceiveChunks[c][r] >= 1
    THEN [s EXCEPT !.validReceiveChunks[c][r] = @ - 1]
    ELSE s

\* the state after the call and whether the reject was valid
remoteRejectedRequest(s, c, r) ==
    LET d == deleteRequest(s, c, r) IN
    IF d.s.panic # "" THEN [s |-> d.s, ok |-> FALSE]
    ELSE IF ~d.ok /\ r \notin s.cancelled[c] THEN [s |-> s, ok |-> FALSE]
    ELSE LET s1 == IF d.ok THEN decPeakRequests(d.s, c)
                   ELSE [s EXCEPT !.cancelled[c] = @ \ {r}]
             s2 == IF isLowOnRequests(s1, c)
                   THEN updateRequestsOf(s1, c, "Peer.remoteRejectedRequest")
                   ELSE s1
         IN  [s |-> decExpectedChunkReceive(s2, c, r), ok |-> TRUE]

\* Torrent.haveChunk for a piece that is not complete
haveChunk(dirty, r) == r \in dirty

\* the peer is not entitled to send the chunk
unexpectedChunk_Never(s, c, req) == FALSE

unexpectedChunk(s, c, req) == s.validReceiveChunks[c][req] <= 0

\* receiveChunkImpl up to the release of the client lock: the state then,
\* whether the chunk was marked (pendingWrites and dirtyChunks updated) and
\* goes on to be written, and how the call went: the error it returned, or
\* "wasted" (ChunksReadWasted counted, nil returned), or "useful"
\* (ChunksReadUseful counted, the write is next)
receiveChunkImpl(s, dirty, c, req) ==
    IF unexpectedChunk(s, c, req)
    THEN [s |-> s, marked |-> FALSE, out |-> "received unexpected chunk"]
    ELSE LET s1 == decExpectedChunkReceive(s, c, req)
             d  == deleteRequest(s1, c, req)
             wasCancelled == ~d.ok /\ req \in s1.cancelled[c]
             s2 == IF d.ok THEN d.s
                   ELSE IF wasCancelled
                   THEN [s1 EXCEPT !.cancelled[c] = @ \ {req}]
                   ELSE s1
             s3 == IF s2.panic = "" /\ (d.ok \/ wasCancelled)
                      /\ isLowOnRequests(s2, c)
                   THEN updateRequestsOf(s2, c,
                            "Peer.receiveChunk deleted request")
                   ELSE s2
             p  == s3.requestState[req]
         IN  IF s3.panic # ""
             THEN [s |-> s3, marked |-> FALSE, out |-> "panic"]
             ELSE IF haveChunk(dirty, req)
             THEN [s |-> s3, marked |-> FALSE, out |-> "wasted"]
             ELSE IF p = NoPeer
             THEN [s |-> s3, marked |-> TRUE, out |-> "useful"]
             ELSE IF p = c
             THEN [s |-> peerPanics(s3,
         "should not be pending request from conn that just received it"),
                   marked |-> TRUE, out |-> "panic"]
             ELSE LET s4 == cancel(s3, p, req) IN
                  [s |-> s4, marked |-> TRUE,
                   out |-> IF s4.panic # "" THEN "panic" ELSE "useful"]

RECURSIVE cancelEach(_, _, _)
cancelEach(s, c, rs) ==
    IF rs = {} \/ s.panic # "" THEN s
    ELSE LET x == CHOOSE r \in rs : \A q \in rs : r <= q
         IN  cancelEach(cancel(s, c, x), c, rs \ {x})

\* IterateSnapshot walks the requests held on entry in increasing order
cancelAllRequests(s, c) == cancelEach(s, c, s.requests[c])

RECURSIVE deleteEach(_, _, _)
deleteEach(s, c, rs) ==
    IF rs = {} \/ s.panic # "" THEN s
    ELSE LET x == CHOOSE r \in rs : \A q \in rs : r <= q
         IN  deleteEach(deleteRequest(s, c, x).s, c, rs \ {x})

\* Torrent.iterPeers: updateRequests(reason) on every peer low on requests
updateLowPeers(s, reason) ==
    IF s.panic # "" THEN s
    ELSE [s EXCEPT !.needRequestUpdate =
             [p \in Peers |->
                 IF isLowOnRequests(s, p) /\ @[p] = "" THEN reason ELSE @[p]]]

deleteAllRequests(s, c, reason) ==
    IF s.requests[c] = {} THEN s
    ELSE updateLowPeers(deleteEach(s, c, s.requests[c]), reason)

\* webseedPeer.onClose
onClose(s, c) == updateLowPeers(cancelAllRequests(s, c), "webseedPeer.onClose")

\* the goroutine that reads a peer connection handles one message at a time
Reading(p) == \A r \in RequestIndexes : chunkStage[p][r] = "none"

RECURSIVE sumOver(_, _)
sumOver(f, rs) ==
    IF rs = {} THEN 0
    ELSE LET x == CHOOSE r \in rs : TRUE IN f[x] + sumOver(f, rs \ {x})

\* chunks the peer is still entitled to send, over all request indexes
expectedChunks(p) == sumOver(validReceiveChunks[p], RequestIndexes)

\* ------------------------------------------------------------ peer actions

Returned(op, out) == [op |-> op, out |-> out]

\* add_request: Peer.request for a chunk not yet received, on an open peer,
\* whatever the peer's choke state and the piece's hashing state are
AddRequest(p, r, has, choking, fast, hashing) ==
    LET rq == request(PeerState, p, r,
                  RequestEnv(has, choking, fast, hashing, queuedForHash))
    IN  /\ peerPanic = ""
        /\ ~peerClosed[p]
        /\ r \notin dirtyChunks
        /\ expectedChunks(p) < MaxValidReceive
        /\ peakRequests[p] + MaxPeakDebt > Cardinality(requests[p])
        /\ SetPeerState(rq.s)
        /\ ret' = Returned("request", rq.out)
        /\ UNCHANGED <<torrentVars, peerClosed, infoVars, pendingAtReceipt>>

\* the end of a scheduler run on a peer that needs one: the peak is the
\* number of requests now outstanding and the reason is cleared
applyRequestState(p) ==
    /\ peerPanic = ""
    /\ ~peerClosed[p]
    /\ peerNeedUpdate[p] # ""
    /\ peakRequests' = [peakRequests EXCEPT ![p] = Cardinality(requests[p])]
    /\ peerNeedUpdate' = [peerNeedUpdate EXCEPT ![p] = ""]
    /\ UNCHANGED <<requests, cancelled, validReceiveChunks, requestState,
                   chunkStage, peerPanic, torrentVars, peerClosed, infoVars,
                   ret, pendingAtReceipt>>

\* a local cancel of an outstanding request
Cancel(p, r) ==
    /\ peerPanic = ""
    /\ r \in requests[p]
    /\ SetPeerState(cancel(PeerState, p, r))
    /\ ret' = Returned("cancel", "")
    /\ UNCHANGED <<torrentVars, peerClosed, infoVars, pendingAtReceipt>>

\* what a call of remoteRejectedRequest returned
rejectOut(rj) ==
    IF rj.s.panic # "" THEN "panic" ELSE IF rj.ok THEN "true" ELSE "false"

\* a Reject message read from a peer connection
RemoteReject(p, r) ==
    LET rj == remoteRejectedRequest(PeerState, p, r)
    IN  /\ peerPanic = ""
        /\ ~IsWebseed(p)
        /\ ~peerClosed[p]
        /\ Reading(p)
        /\ SetPeerState(rj.s)
        /\ ret' = Returned("remoteRejectedRequest", rejectOut(rj))
        /\ UNCHANGED <<torrentVars, peerClosed, infoVars, pendingAtReceipt>>

\* what receiveChunkImpl does before it writes, and where it leaves the chunk
ReceiveUnderLock(p, r, after) ==
    LET rc == receiveChunkImpl(PeerState, dirtyChunks, p, r)
        goesOn == rc.marked /\ rc.s.panic = ""
    IN  /\ SetPeerState([rc.s EXCEPT !.chunkStage[p][r] =
                            IF goesOn THEN "writing" ELSE after])
        /\ dirtyChunks' = IF rc.marked THEN dirtyChunks \cup {r}
                          ELSE dirtyChunks
        /\ pendingWrites' = IF rc.marked THEN pendingWrites + 1
                            ELSE pendingWrites
        /\ pendingAtReceipt' =
               IF goesOn
               THEN [pendingAtReceipt EXCEPT ![p][r] = pendingWrites]
               ELSE pendingAtReceipt
        /\ ret' = IF goesOn THEN ret ELSE Returned("receiveChunk", rc.out)
        /\ UNCHANGED <<queuedForHash, peerClosed, infoVars>>

\* a Piece message read from a peer connection
ReceiveChunk(p, r) ==
    /\ peerPanic = ""
    /\ ~IsWebseed(p)
    /\ ~peerClosed[p]
    /\ Reading(p)
    /\ ReceiveUnderLock(p, r, "none")

\* Torrent.pieceAllDirty
pieceAllDirty(dirty) == dirty = RequestIndexes

\* whether the receipt whose write just ended hands the piece to
\* queuePieceCheck
queuesPieceCheck_IgnorePendingWrites(dirty, pending) == pieceAllDirty(dirty)

queuesPieceCheck(dirty, pending) == pieceAllDirty(dirty) /\ pending = 0

\* Torrent.pendRequest: the chunk is wanted again
pendRequest_KeepDirty(dirty, r) == dirty

pendRequest(dirty, r) == dirty \ {r}

\* receiveChunkImpl after the write, the client lock taken again; it returns
\* nil whether the write failed ("write error": the request is pended again
\* and onWriteChunkErr is called) or not ("written")
ChunkWritten(p, r, err) ==
    /\ peerPanic = ""
    /\ chunkStage[p][r] = "writing"
    /\ pendingWrites' = pendingWrites - 1
    /\ chunkStage' = [chunkStage EXCEPT ![p][r] =
                         IF IsWebseed(p) THEN "handled" ELSE "none"]
    /\ pendingAtReceipt' = [pendingAtReceipt EXCEPT ![p][r] = 0]
    /\ IF err
       THEN /\ dirtyChunks' = pendRequest(dirtyChunks, r)
            /\ peerNeedUpdate' =
                   updateRequestsOf(PeerState, p,
                       "Peer.receiveChunk error writing chunk").needRequestUpdate
            /\ ret' = Returned("receiveChunk", "write error")
            /\ UNCHANGED queuedForHash
       ELSE /\ queuedForHash' =
                   (queuedForHash
                    \/ queuesPieceCheck(dirtyChunks, pendingWrites'))
            /\ ret' = Returned("receiveChunk", "written")
            /\ UNCHANGED <<dirtyChunks, peerNeedUpdate>>
    /\ UNCHANGED <<requests, cancelled, validReceiveChunks, requestState,
                   peakRequests, peerPanic, peerClosed, infoVars>>

\* a webseed requester starts the transfer of an outstanding request
WebseedStart(p, r) ==
    /\ peerPanic = ""
    /\ IsWebseed(p)
    /\ ~peerClosed[p]
    /\ r \in requests[p]
    /\ chunkStage[p][r] = "none"
    /\ chunkStage' = [chunkStage EXCEPT ![p][r] = "fetching"]
    /\ UNCHANGED <<requests, cancelled, validReceiveChunks, requestState,
                   peerNeedUpdate, peakRequests, peerPanic, torrentVars,
                   peerClosed, infoVars, ret, pendingAtReceipt>>

\* requestResultHandler: the transfer ended, with an error or with the bytes
WebseedResult(p, r, err) ==
    /\ peerPanic = ""
    /\ IsWebseed(p)
    /\ chunkStage[p][r] \in {"fetching", "cancelled"}
    /\ IF err
       THEN LET rj == remoteRejectedRequest(PeerState, p, r)
            IN  /\ SetPeerState([rj.s EXCEPT !.chunkStage[p][r] = "handled"])
                /\ ret' = Returned("remoteRejectedRequest", rejectOut(rj))
                /\ UNCHANGED <<torrentVars, peerClosed, infoVars,
                               pendingAtReceipt>>
       ELSE ReceiveUnderLock(p, r, "handled")

\* requestIteratorLocked after the handler returned
WebseedFinish(p, r) ==
    /\ peerPanic = ""
    /\ IsWebseed(p)
    /\ chunkStage[p][r] = "handled"
    /\ chunkStage' = [chunkStage EXCEPT ![p][r] = "none"]
    /\ UNCHANGED <<requests, cancelled, validReceiveChunks, requestState,
                   peerNeedUpdate, peakRequests, peerPanic, torrentVars,
                   peerClosed, infoVars, ret, pendingAtReceipt>>

\* p.closed.Set(): whether this call is the one that closed the peer
closedSet(wasClosed) == ~wasClosed

\* Torrent.decPeerPieceAvailability for a peer that has the piece
decPeerPieceAvailability(avail) == avail - 1

\* Peer.close on a peer that is open; the requests of a peer connection are
\* deleted as the torrent drops it
PeerClose(p) ==
    /\ peerPanic = ""
    /\ closedSet(peerClosed[p])
    /\ peerClosed' = [peerClosed EXCEPT ![p] = TRUE]
    /\ SetPeerState(IF IsWebseed(p) THEN onClose(PeerState, p)
                    ELSE deleteAllRequests(PeerState, p,
                             "Torrent.deletePeerConn"))
    /\ pieceAvailability' = IF peerPanic' = ""
                            THEN decPeerPieceAvailability(pieceAvailability)
                            ELSE pieceAvailability
    /\ ret' = Returned("close", "")
    /\ UNCHANGED <<torrentVars, numChunks, PeerMaxRequests, pendingAtReceipt>>

\* Peer.close on a peer that is closed: it returns at once
PeerCloseAgain(p) ==
    /\ peerPanic = ""
    /\ ~closedSet(peerClosed[p])
    /\ ret' = Returned("close", "closed already")
    /\ UNCHANGED <<requests, cancelled, validReceiveChunks, requestState,
                   peerNeedUpdate, peakRequests, peerClosed, chunkStage,
                   peerPanic, torrentVars, infoVars, pendingAtReceipt>>

\* everything the peers do but the end of a scheduler run
PeerSteps ==
    \/ \E p \in Peers, r \in RequestIndexes,
          has \in BOOLEAN, choking \in BOOLEAN, fast \in BOOLEAN,
          hashing \in BOOLEAN :
           AddRequest(p, r, has, choking, fast, hashing)
    \/ \E p \in Peers, r \in RequestIndexes : Cancel(p, r)
    \/ \E p \in Peers, r \in RequestIndexes : RemoteReject(p, r)
    \/ \E p \in Peers, r \in RequestIndexes : ReceiveChunk(p, r)
    \/ \E p \in Peers, r \in RequestIndexes, err \in BOOLEAN :
           ChunkWritten(p, r, err)
    \/ \E p \in Peers, r \in RequestIndexes : WebseedStart(p, r)
    \/ \E p \in Peers, r \in RequestIndexes, err \in BOOLEAN :
           WebseedResult(p, r, err)
    \/ \E p \in Peers, r \in RequestIndexes : WebseedFinish(p, r)
    \/ \E p \in Peers : PeerClose(p)
    \/ \E p \in Peers : PeerCloseAgain(p)

PeerNext ==
    \/ PeerSteps
    \/ \E p \in Peers : applyRequestState(p)

PeerSpecInit == LockIdle /\ WriterInit /\ WebseedInit /\ OrderInit /\ RequesterInit /\ PeerInit

PeerSpecNext == PeerNext /\ UNCHANGED <<lockVars, writerVars, requesterVars, orderVars, webseedVars>>

\* the same peers on a piece of several chunks, between scheduler runs
PieceSpecInit == LockIdle /\ WriterInit /\ WebseedInit /\ OrderInit /\ RequesterInit /\ PeerInitOf(PieceChunks, Reqq)

PieceSpecNext == PeerSteps /\ UNCHANGED <<lockVars, writerVars, requesterVars, orderVars, webseedVars>>

PieceSpec == PieceSpecInit /\ [][PieceSpecNext]_vars

\* one peer connection that may have several requests outstanding, on a
\* piece with as many chunks: the peer has the piece and does not choke, the
\* piece is not hashing
QuotaPeer == 1

\* add_request on that connection, for a chunk not yet received
QuotaRequest(r) ==
    LET rq == request(PeerState, QuotaPeer, r,
                  RequestEnv(TRUE, FALSE, FALSE, FALSE, queuedForHash))
    IN  /\ peerPanic = ""
        /\ r \notin dirtyChunks
        /\ peakRequests[QuotaPeer] + MaxPeakDebt >= 0
        /\ SetPeerState(rq.s)
        /\ ret' = Returned("request", rq.out)
        /\ UNCHANGED <<torrentVars, peerClosed, infoVars, pendingAtReceipt>>

QuotaNext ==
    \/ \E r \in RequestIndexes : QuotaRequest(r)
    \/ applyRequestState(QuotaPeer)
    \/ \E r \in RequestIndexes : Cancel(QuotaPeer, r)
    \/ \E r \in RequestIndexes : ReceiveChunk(QuotaPeer, r)
    \/ \E r \in RequestIndexes, err \in BOOLEAN :
           ChunkWritten(QuotaPeer, r, err)

QuotaSpecInit == LockIdle /\ WriterInit /\ WebseedInit /\ OrderInit /\ RequesterInit /\ PeerInitOf(QuotaChunks, QuotaReqq)

QuotaSpecNext == QuotaNext /\ UNCHANGED <<lockVars, writerVars, requesterVars, orderVars, webseedVars>>

QuotaSpec == QuotaSpecInit /\ [][QuotaSpecNext]_vars

PeerSpec == PeerSpecInit /\ [][PeerSpecNext]_vars

Next == LockNext /\ UNCHANGED <<dropVars, callVars, writerVars, peerVars, requesterVars, orderVars, webseedVars>>

Spec == Init /\ [][Next]_vars

WriterSpecInit == LockIdle /\ WriterInit /\ WebseedInit /\ OrderInit /\ RequesterInit /\ PeerInit

WriterSpecNext == WriterNext /\ UNCHANGED <<lockVars, peerVars, requesterVars, orderVars, webseedVars>>

WriterSpec == WriterSpecInit /\ [][WriterSpecNext]_vars

\* the writer goroutine is scheduled and, the mutexes being starvation-free,
\* gets a lock it keeps asking for; a lock holder inside write() goes on once
\* it has cn.mu, and releases the client lock; time passes
WriterFairSpec ==
    /\ WriterSpec
    /\ SF_vars(WriterSteps /\ UNCHANGED <<lockVars, peerVars, requesterVars, orderVars, webseedVars>>)
    /\ WF_vars(CallerUnlock /\ UNCHANGED <<lockVars, peerVars, requesterVars, orderVars, webseedVars>>)
    /\ SF_vars(CallerWrite /\ UNCHANGED <<lockVars, peerVars, requesterVars, orderVars, webseedVars>>)
    /\ WF_vars(FillGapElapses /\ UNCHANGED <<lockVars, peerVars, requesterVars, orderVars, webseedVars>>)
    /\ WF_vars(TimerFires /\ UNCHANGED <<lockVars, peerVars, requesterVars, orderVars, webseedVars>>)

\* ======================================= the requesters of a webseed peer
\* The lock operations of requester, requestIteratorLocked,
\* requestResultHandler and receiveChunkImpl, one action per stretch of code
\* between two of them.  rpc[g] is where requester g stands:
\*   "start"         at the head of requester's loop, lock not taken
\*   "locked"        after requester's Lock, before the first request
\*   "returnedTrue"  requestIteratorLocked has returned true
\*   "returnedFalse" requestIteratorLocked has returned false
\*   "fetch"         in requestResultHandler, waiting for the result
\*   "handler"       in requestResultHandler, after its Lock
\*   "write"         in receiveChunkImpl, writing the chunk to storage
\*   "received"      receiveChunkImpl has returned to requestResultHandler
\*   "handled"       requestResultHandler has returned
\*   "backoff"       in requestIteratorLocked's sleep after an error
\*   "waiting"       in requester's select
\*   "done"          requester has returned

lockRest == <<allowDefers, unlockActions, uniqueActions, pc, mode, i,
              startLen, waiters, eventWaiters, ch, waitImpl, ran, nDeferred,
              nRun, uniqueCalls, leftWaiting, dropVars, callVars>>

\* cl._mu.internal.Lock() by requester g
LockInternal(g) ==
    /\ internal = 0
    /\ internal' = g
    /\ UNCHANGED panicked

\* cl._mu.internal.Unlock(): the runtime ends the process when the mutex
\* is not locked
UnlockInternal ==
    /\ internal' = 0
    /\ panicked' = IF internal = 0
                   THEN "sync: Unlock of unlocked RWMutex"
                   ELSE panicked

At(g, label) == rpc' = [rpc EXCEPT ![g] = label]

InLoop(g) == rpc[g] \in {"locked", "returnedTrue"}

\* a request of the webseed peer made under the client lock by the
\* goroutine that updates its requests
WebseedRequest(r, op) ==
    LET rq == request(PeerState, WebseedPeer, r,
                  RequestEnv(TRUE, FALSE, FALSE, FALSE, queuedForHash))
    IN  /\ panicked = ""
        /\ internal = 0
        /\ peerPanic = ""
        /\ ~peerClosed[WebseedPeer]
        /\ r \notin dirtyChunks
        /\ SetPeerState(rq.s)
        /\ ret' = Returned(op, rq.out)
        /\ UNCHANGED <<torrentVars, peerClosed, infoVars, pendingAtReceipt>>

WebseedRequested(r) == WebseedRequest(r, "request")

\* requester: the loop condition and the Lock that opens a round
RequesterLock(g, shut) ==
    /\ panicked = ""
    /\ rpc[g] = "start"
    /\ IF shut
       THEN /\ At(g, "done")
            /\ UNCHANGED <<internal, panicked, processedAnyRequests>>
       ELSE /\ LockInternal(g)
            /\ At(g, "locked")
            /\ processedAnyRequests' =
                   [processedAnyRequests EXCEPT ![g] = FALSE]
    /\ UNCHANGED <<activeRequests, reqIndex, lockHeld, handlerErr>>

\* requestIteratorLocked: _, ok := ws.activeRequests[r]
isActive_Never(active, x) == FALSE

isActive(active, x) == x \in active

\* requestIteratorLocked on a request another requester is handling
IterateActive(g, x) ==
    /\ panicked = ""
    /\ InLoop(g)
    /\ isActive(activeRequests, x)
    /\ At(g, "returnedTrue")
    /\ processedAnyRequests' = [processedAnyRequests EXCEPT ![g] = TRUE]
    /\ UNCHANGED <<internal, panicked, activeRequests, reqIndex, lockHeld,
                   handlerErr>>

\* requestIteratorLocked on a new request, up to its Unlock and the call
\* of requestResultHandler
IterateStart(g, x) ==
    /\ panicked = ""
    /\ InLoop(g)
    /\ ~isActive(activeRequests, x)
    /\ processedAnyRequests' =
           [processedAnyRequests EXCEPT ![g] = rpc[g] = "returnedTrue"]
    /\ activeRequests' = activeRequests \cup {x}
    /\ reqIndex' = [reqIndex EXCEPT ![g] = x]
    /\ UnlockInternal
    /\ At(g, "fetch")
    /\ UNCHANGED <<lockHeld, handlerErr>>

\* requestResultHandler: the result arrives, Lock, lockHeld := true
HandlerLock(g) ==
    /\ panicked = ""
    /\ rpc[g] = "fetch"
    /\ LockInternal(g)
    /\ lockHeld' = [lockHeld EXCEPT ![g] = TRUE]
    /\ At(g, "handler")
    /\ UNCHANGED <<activeRequests, reqIndex, processedAnyRequests,
                   handlerErr>>

\* the function requestResultHandler defers: if lockHeld { Unlock() }
deferredUnlock_Skipped(held) == FALSE

deferredUnlock(held) == held

HandlerDeferred(g, held) ==
    IF deferredUnlock(held)
    THEN UnlockInternal
    ELSE UNCHANGED <<internal, panicked>>

\* requestResultHandler returns before receiving a chunk: the torrent is
\* closed (nil), or the result carries an error (that error, or "invalid
\* reject")
HandlerReturn(g, err) ==
    /\ panicked = ""
    /\ rpc[g] = "handler"
    /\ handlerErr' = [handlerErr EXCEPT ![g] = err]
    /\ HandlerDeferred(g, lockHeld[g])
    /\ lockHeld' = [lockHeld EXCEPT ![g] = FALSE]
    /\ At(g, "handled")
    /\ UNCHANGED <<activeRequests, reqIndex, processedAnyRequests>>

\* lockHeld := false and receiveChunkImpl up to a return that precedes the
\* write: an invalid or unexpected chunk (an error) or a chunk the torrent
\* has (nil)
ReceiveReturnsEarly(g, err) ==
    /\ panicked = ""
    /\ rpc[g] = "handler"
    /\ lockHeld' = [lockHeld EXCEPT ![g] = FALSE]
    /\ handlerErr' = [handlerErr EXCEPT ![g] = err]
    /\ At(g, "received")
    /\ UNCHANGED <<internal, panicked, activeRequests, reqIndex,
                   processedAnyRequests>>

\* lockHeld := false and receiveChunkImpl up to its Unlock before the write
ReceiveWrites(g) ==
    /\ panicked = ""
    /\ rpc[g] = "handler"
    /\ lockHeld' = [lockHeld EXCEPT ![g] = FALSE]
    /\ UnlockInternal
    /\ At(g, "write")
    /\ UNCHANGED <<activeRequests, reqIndex, processedAnyRequests,
                   handlerErr>>

\* writeChunk returns, the deferred Lock, and the rest of receiveChunkImpl,
\* which returns nil whether the write failed or not
WriteReturns(g) ==
    /\ panicked = ""
    /\ rpc[g] = "write"
    /\ LockInternal(g)
    /\ handlerErr' = [handlerErr EXCEPT ![g] = ""]
    /\ At(g, "received")
    /\ UNCHANGED <<activeRequests, reqIndex, processedAnyRequests, lockHeld>>

\* requestResultHandler after receiveChunkFromWebseed: lockHeld := true,
\* return err, the deferred function; the local ends with the call
HandlerReturnsReceived(g) ==
    /\ panicked = ""
    /\ rpc[g] = "received"
    /\ HandlerDeferred(g, TRUE)
    /\ lockHeld' = [lockHeld EXCEPT ![g] = FALSE]
    /\ At(g, "handled")
    /\ UNCHANGED <<activeRequests, reqIndex, processedAnyRequests,
                   handlerErr>>

\* requestIteratorLocked after the handler: Lock, delete the active
\* request, then return true, or Unlock for the back-off sleep
IterateRelock(g) ==
    /\ panicked = ""
    /\ rpc[g] = "handled"
    /\ internal = 0
    /\ activeRequests' = activeRequests \ {reqIndex[g]}
    /\ IF handlerErr[g] # ""
       THEN /\ At(g, "backoff")
            /\ UNCHANGED <<internal, panicked, processedAnyRequests>>
       ELSE /\ LockInternal(g)
            /\ At(g, "returnedTrue")
            /\ processedAnyRequests' =
                   [processedAnyRequests EXCEPT ![g] = TRUE]
    /\ reqIndex' = [reqIndex EXCEPT ![g] = 0]
    /\ handlerErr' = [handlerErr EXCEPT ![g] = ""]
    /\ UNCHANGED lockHeld

\* the back-off sleep ends: Lock, return false
BackoffEnds(g) ==
    /\ panicked = ""
    /\ rpc[g] = "backoff"
    /\ LockInternal(g)
    /\ At(g, "returnedFalse")
    /\ UNCHANGED <<activeRequests, reqIndex, processedAnyRequests, lockHeld,
                   handlerErr>>

\* requester after a false return: Unlock, goto start
RequesterRestarts(g) ==
    /\ panicked = ""
    /\ rpc[g] = "returnedFalse"
    /\ UnlockInternal
    /\ At(g, "start")
    /\ processedAnyRequests' = [processedAnyRequests EXCEPT ![g] = FALSE]
    /\ UNCHANGED <<activeRequests, reqIndex, lockHeld, handlerErr>>

\* requester when the iteration ends: Unlock, then continue if a request
\* was processed, else wait for a wakeup
RequesterRoundEnds(g) ==
    /\ panicked = ""
    /\ InLoop(g)
    /\ UnlockInternal
    /\ At(g, IF processedAnyRequests[g] THEN "start" ELSE "waiting")
    /\ processedAnyRequests' = [processedAnyRequests EXCEPT ![g] = FALSE]
    /\ UNCHANGED <<activeRequests, reqIndex, lockHeld, handlerErr>>

\* requester's select: a wakeup, or the peer or its requesters closed
RequesterWakes(g, shut) ==
    /\ panicked = ""
    /\ rpc[g] = "waiting"
    /\ At(g, IF shut THEN "done" ELSE "start")
    /\ UNCHANGED <<internal, panicked, activeRequests, reqIndex,
                   processedAnyRequests, lockHeld, handlerErr>>

HandlerErrors == {"", "error"}

RequesterSteps ==
    \E g \in Goroutines :
        \/ \E shut \in BOOLEAN : RequesterLock(g, shut)
        \/ \E x \in requests[WebseedPeer] : IterateActive(g, x)
        \/ \E x \in requests[WebseedPeer] : IterateStart(g, x)
        \/ HandlerLock(g)
        \/ \E err \in HandlerErrors : HandlerReturn(g, err)
        \/ \E err \in HandlerErrors : ReceiveReturnsEarly(g, err)
        \/ ReceiveWrites(g)
        \/ WriteReturns(g)
        \/ HandlerReturnsReceived(g)
        \/ IterateRelock(g)
        \/ BackoffEnds(g)
        \/ RequesterRestarts(g)
        \/ RequesterRoundEnds(g)
        \/ \E shut \in BOOLEAN : RequesterWakes(g, shut)

RequesterNext ==
    \/ RequesterSteps /\ UNCHANGED <<lockRest, writerVars, peerVars, orderVars, webseedVars>>
    \/ \E r \in RequestIndexes :
           WebseedRequested(r)
               /\ UNCHANGED <<lockVars, writerVars, requesterVars, orderVars, webseedVars>>

RequesterSpecInit ==
    LockIdle /\ WriterInit /\ WebseedInit /\ OrderInit /\ RequesterInit /\ PeerInitOf(PieceChunks, QuotaReqq)

RequesterSpec == RequesterSpecInit /\ [][RequesterNext]_vars

\* ================================== a webseed peer: requesters and requests
\* The requesters above together with the request bookkeeping of the
\* webseed peer: each step of a requester that touches the peer's requests
\* is taken with the peer operation it calls.  chunkStage of the webseed
\* peer is the state of the entry activeRequests has for the request:
\* "fetching", "cancelled" once Cancel was called on it, then "writing" and
\* "handled".

\* cap(requesterWakeup)
WakeupCap == 1

\* webseedPeer._request: a send that is dropped when the channel is full
signalRequesters_AlwaysDropped(n) == n

signalRequesters(n) == IF n < WakeupCap THEN n + 1 ELSE n

\* the scheduler requests r of the webseed peer, under the client lock
WsRequest(r) ==
    /\ expectedChunks(WebseedPeer) < MaxValidReceive
    /\ peakRequests[WebseedPeer] + MaxPeakDebt >= 0
    /\ WebseedRequest(r, IF requesterWakeup < WakeupCap THEN "request"
                          ELSE "request, wakeup dropped")
    /\ requesterWakeup' = IF ret'.out = "added"
                          THEN signalRequesters(requesterWakeup)
                          ELSE requesterWakeup
    /\ UNCHANGED <<lockVars, requesterVars, requesterClosed, iterated>>

\* the end of a scheduler run on the webseed peer, under the client lock
WsApplied ==
    /\ panicked = ""
    /\ internal = 0
    /\ applyRequestState(WebseedPeer)
    /\ UNCHANGED <<lockVars, requesterVars, webseedVars>>

\* Peer.close on the webseed peer, under the client lock; onClose closes
\* requesterClosed
WsClose ==
    /\ panicked = ""
    /\ internal = 0
    /\ PeerClose(WebseedPeer)
    /\ requesterClosed' = TRUE
    /\ UNCHANGED <<lockVars, requesterVars, requesterWakeup, iterated>>

\* requester: the loop condition, Lock, and the start of the iteration
WsLock(g) ==
    /\ peerPanic = ""
    /\ RequesterLock(g, peerClosed[WebseedPeer])
    /\ iterated' = [iterated EXCEPT ![g] =
                        IF peerClosed[WebseedPeer] THEN @
                        ELSE requests[WebseedPeer]]
    /\ UNCHANGED <<peerVars, requesterWakeup, requesterClosed>>

Visited(g, x) == iterated' = [iterated EXCEPT ![g] = @ \ {x}]

\* the iteration passes over a request that was deleted since it started
WsIterateDeleted(g, x) ==
    /\ panicked = ""
    /\ peerPanic = ""
    /\ InLoop(g)
    /\ x \in iterated[g]
    /\ x \notin requests[WebseedPeer]
    /\ Visited(g, x)
    /\ UNCHANGED <<internal, panicked, peerVars, requesterVars,
                   requesterWakeup, requesterClosed>>

WsIterateActive(g, x) ==
    /\ peerPanic = ""
    /\ x \in iterated[g]
    /\ IterateActive(g, x)
    /\ Visited(g, x)
    /\ UNCHANGED <<peerVars, requesterWakeup, requesterClosed>>

\* the iteration yields a request no requester handles: StartNewRequest.
\* The request may have been deleted since the iteration started.
WsIterateStart(g, x) ==
    /\ peerPanic = ""
    /\ x \in iterated[g]
    /\ IterateStart(g, x)
    /\ Visited(g, x)
    /\ chunkStage' = [chunkStage EXCEPT ![WebseedPeer][x] = "fetching"]
    /\ UNCHANGED <<requests, cancelled, validReceiveChunks, requestState,
                   peerNeedUpdate, peakRequests, peerPanic, torrentVars,
                   peerClosed, infoVars, ret, pendingAtReceipt,
                   requesterWakeup, requesterClosed>>

WsHandlerLock(g) ==
    /\ peerPanic = ""
    /\ HandlerLock(g)
    /\ UNCHANGED <<peerVars, webseedVars>>

\* the result carries an error: remoteRejectedRequest, then the error or
\* "invalid reject" is returned
WsResultError(g) ==
    /\ rpc[g] = "handler"
    /\ WebseedResult(WebseedPeer, reqIndex[g], TRUE)
    /\ HandlerReturn(g, "error")
    /\ UNCHANGED webseedVars

\* the result carries the bytes: receiveChunkFromWebseed
WsResultBytes(g) ==
    LET rc == receiveChunkImpl(PeerState, dirtyChunks, WebseedPeer,
                               reqIndex[g])
    IN  /\ rpc[g] = "handler"
        /\ WebseedResult(WebseedPeer, reqIndex[g], FALSE)
        /\ IF rc.marked /\ rc.s.panic = ""
           THEN ReceiveWrites(g)
           ELSE ReceiveReturnsEarly(g, IF rc.out = "wasted" THEN ""
                                       ELSE "error")
        /\ UNCHANGED webseedVars

WsWriteReturns(g, err) ==
    /\ rpc[g] = "write"
    /\ ChunkWritten(WebseedPeer, reqIndex[g], err)
    /\ WriteReturns(g)
    /\ UNCHANGED webseedVars

WsHandlerReturnsReceived(g) ==
    /\ peerPanic = ""
    /\ HandlerReturnsReceived(g)
    /\ UNCHANGED <<peerVars, webseedVars>>

\* an error ends the iteration
WsIterateRelock(g) ==
    /\ rpc[g] = "handled"
    /\ WebseedFinish(WebseedPeer, reqIndex[g])
    /\ IterateRelock(g)
    /\ iterated' = [iterated EXCEPT ![g] =
                        IF handlerErr[g] # "" THEN {} ELSE @]
    /\ UNCHANGED <<requesterWakeup, requesterClosed>>

WsBackoffEnds(g) ==
    /\ peerPanic = ""
    /\ BackoffEnds(g)
    /\ UNCHANGED <<peerVars, webseedVars>>

WsRestarts(g) ==
    /\ peerPanic = ""
    /\ RequesterRestarts(g)
    /\ UNCHANGED <<peerVars, webseedVars>>

\* the iteration is over
WsRoundEnds(g) ==
    /\ peerPanic = ""
    /\ iterated[g] = {}
    /\ RequesterRoundEnds(g)
    /\ UNCHANGED <<peerVars, webseedVars>>

\* requester's select takes a signal from requesterWakeup
WsWakes(g) ==
    /\ peerPanic = ""
    /\ requesterWakeup > 0
    /\ RequesterWakes(g, FALSE)
    /\ requesterWakeup' = requesterWakeup - 1
    /\ UNCHANGED <<peerVars, requesterClosed, iterated>>

\* requester's select finds requesterClosed or the peer closed
WsReturns(g) ==
    /\ peerPanic = ""
    /\ requesterClosed \/ peerClosed[WebseedPeer]
    /\ RequesterWakes(g, TRUE)
    /\ UNCHANGED <<peerVars, webseedVars>>

\* the steps of requester g, the storage failing the writes of writeErrs
WsRequesterWith(g, writeErrs) ==
    \/ WsLock(g)
    \/ \E x \in RequestIndexes : WsIterateDeleted(g, x)
    \/ \E x \in RequestIndexes : WsIterateActive(g, x)
    \/ \E x \in RequestIndexes : WsIterateStart(g, x)
    \/ WsHandlerLock(g)
    \/ WsResultError(g)
    \/ WsResultBytes(g)
    \/ \E err \in writeErrs : WsWriteReturns(g, err)
    \/ WsHandlerReturnsReceived(g)
    \/ WsIterateRelock(g)
    \/ WsBackoffEnds(g)
    \/ WsRestarts(g)
    \/ WsRoundEnds(g)
    \/ WsWakes(g)
    \/ WsReturns(g)

WsRequester(g) == WsRequesterWith(g, BOOLEAN)

\* what the goroutines holding the client lock do to the webseed peer
WsClient ==
    \/ \E r \in RequestIndexes : WsRequest(r)
    \/ WsApplied
    \/ WsClose

WebseedNext ==
    /\ \/ \E g \in Goroutines : WsRequester(g)
       \/ WsClient
    /\ UNCHANGED <<lockRest, writerVars, orderVars>>

WebseedSpecInit ==
    /\ LockIdle /\ WriterInit /\ OrderInit /\ RequesterInit /\ WebseedInit
    /\ PeerInitOf(PieceChunks, QuotaReqq)

WebseedSpec == WebseedSpecInit /\ [][WebseedNext]_vars

\* ---------------------------------------------- requesters that go on
\* The webseed peer with a storage that takes every write, and requesters
\* that go on: they are goroutines the Go scheduler runs, sync.RWMutex does
\* not starve a Lock, every transfer ends and so does every back-off sleep,
\* so a requester that can take a step again and again takes one.

WsRequesterStep(g) ==
    WsRequesterWith(g, {FALSE}) /\ UNCHANGED <<lockRest, writerVars, orderVars>>

WebseedFairNext ==
    \/ \E g \in Goroutines : WsRequesterStep(g)
    \/ WsClient /\ UNCHANGED <<lockRest, writerVars, orderVars>>

WebseedFairSpec ==
    /\ WebseedSpecInit
    /\ [][WebseedFairNext]_vars
    /\ \A g \in Goroutines : SF_vars(WsRequesterStep(g))

\* ============================== a blocked reader and the drop of its torrent

\* the goroutine in io.Copy(io.Discard, r), and the one that completes hash
\* checks and then runs tt.Drop()
Reader == 1
Dropper == 2

lockLayer == <<internal, allowDefers, pc, mode, waitImpl, panicked, qVars,
               runVars, histVars, condVars>>

\* the data at the reader's position can be read: its piece passed its check
readable(pos, hashed) == pos < hashed

\* Read takes the client lock
ReaderLock ==
    /\ readState = "reading"
    /\ Lock(Reader)
    /\ UNCHANGED dropVars

\* Read, under the lock, with the torrent open and the data not yet
\* readable: cl.event.Wait
ReaderWaits ==
    /\ readState = "reading"
    /\ ~torrentClosed
    /\ readPos < NumPieces
    /\ ~readable(readPos, hashedPieces)
    /\ EventWaitRegister(Reader)
    /\ UNCHANGED dropVars

\* the rest of Event.Wait: Unlock, <-ch, Lock
ReaderInWait ==
    /\ EventWaitUnlock(Reader) \/ EventWaitLock(Reader)
    /\ UNCHANGED dropVars

\* Read hands over the data of a piece that can be read
ReaderAdvances ==
    /\ readState = "reading"
    /\ panicked = ""
    /\ pc[Reader] = "locked"
    /\ ~torrentClosed
    /\ readPos < NumPieces
    /\ readable(readPos, hashedPieces)
    /\ readPos' = readPos + 1
    /\ UNCHANGED <<lockLayer, torrentClosed, hashedPieces, readState,
                   dropState>>

\* Read returns for the last time: the torrent is closed, or the data ended
ReaderReturns ==
    /\ readState = "reading"
    /\ torrentClosed \/ readPos = NumPieces
    /\ UnlockBegin(Reader)
    /\ readState' = "returned"
    /\ UNCHANGED <<torrentClosed, hashedPieces, readPos, dropState>>

\* a holder of the client lock queues an action for its Unlock
DropDefer(g) ==
    /\ Defer(g, "f")
    /\ UNCHANGED dropVars

\* Unlock() after its first step, by either goroutine
DropUnlockSteps(g) ==
    /\ RunAction(g) \/ RunEnd(g) \/ UnlockRelease(g)
    /\ UNCHANGED dropVars

\* the other goroutine takes the client lock, to record a hash check that
\* completed or to drop the torrent
DropperLock ==
    /\ dropState = "start"
    /\ Lock(Dropper)
    /\ \E next \in {"hashed", "closing"} :
          /\ next = "hashed" => hashedPieces < NumPieces
          /\ dropState' = next
    /\ UNCHANGED <<torrentClosed, hashedPieces, readPos, readState>>

\* a piece's hash check completed
HashCheckCompletes ==
    /\ dropState = "hashed"
    /\ panicked = ""
    /\ pc[Dropper] = "locked"
    /\ hashedPieces' = hashedPieces + 1
    /\ dropState' = "broadcast"
    /\ UNCHANGED <<lockLayer, torrentClosed, readPos, readState>>

\* Drop: the torrent is closed
TorrentClose ==
    /\ dropState = "closing"
    /\ panicked = ""
    /\ pc[Dropper] = "locked"
    /\ torrentClosed' = TRUE
    /\ dropState' = "broadcast"
    /\ UNCHANGED <<lockLayer, hashedPieces, readPos, readState>>

\* cl.event.Broadcast() after either change
DropBroadcast ==
    /\ dropState = "broadcast"
    /\ EventBroadcast
    /\ dropState' = "unlock"
    /\ UNCHANGED <<torrentClosed, hashedPieces, readPos, readState>>

\* the other goroutine's Unlock()
DropperUnlock ==
    /\ dropState = "unlock"
    /\ UnlockBegin(Dropper)
    /\ dropState' = IF torrentClosed THEN "done" ELSE "start"
    /\ UNCHANGED <<torrentClosed, hashedPieces, readPos, readState>>

ReaderStep ==
    \/ ReaderLock
    \/ ReaderWaits
    \/ ReaderInWait
    \/ ReaderAdvances
    \/ ReaderReturns
    \/ DropUnlockSteps(Reader)

DropperStep ==
    \/ DropperLock
    \/ HashCheckCompletes
    \/ TorrentClose
    \/ DropBroadcast
    \/ DropperUnlock
    \/ DropUnlockSteps(Dropper)

DropNext ==
    \/ ReaderStep
    \/ DropperStep
    \/ \E g \in {Reader, Dropper} : DropDefer(g)

DropRest == <<callVars, writerVars, peerVars, requesterVars, orderVars,
              webseedVars>>

DropSpecInit == Init /\ waitImpl = "safe"

DropSpec == DropSpecInit /\ [][DropNext /\ UNCHANGED DropRest]_vars

\* the Go scheduler runs every goroutine that can run, and the client lock
\* is handed to a goroutine that keeps asking for it
DropFairSpec ==
    /\ DropSpec
    /\ WF_vars(ReaderStep /\ UNCHANGED DropRest)
    /\ WF_vars(DropperStep /\ UNCHANGED DropRest)

\* ============================================== the piece request order
\* One torrent with storage whose order initPieceRequestOrder has made.
\* pieces[i] holds what the order's state is computed from; the order maps
\* each piece's key to the state stored with it.

\* a torrent with or without a storage capacity
OrderSpecStart ==
    /\ storageCap \in BOOLEAN
    /\ pieces = [p \in Pieces |-> NewPiece]
    /\ pieceRequestOrder =
           addRequestOrderPieces(pieces, [p \in Pieces |-> NoItem],
                                 storageCap, NumPieces)

\* a change of one piece followed by updatePieceRequestOrderPiece
PieceChanged(p, new) ==
    /\ pieces' = [pieces EXCEPT ![p] = new]
    /\ pieceRequestOrder' =
           updatePieceRequestOrderPiece(pieces', pieceRequestOrder,
                                        storageCap, p)
    /\ UNCHANGED storageCap

\* the piece's priority is set
SetPiecePriority(p, prio) ==
    /\ pieces[p].priority # prio
    /\ PieceChanged(p, [pieces[p] EXCEPT !.priority = prio])

\* the storage reports the piece complete, or no longer complete
PieceCompletionChanged(p) ==
    /\ ~pieces[p].hashing
    /\ PieceChanged(p, [pieces[p] EXCEPT !.complete = ~@,
                                         !.partial = FALSE])

\* hashing of the piece starts
PieceHashStarts(p) ==
    /\ ~pieces[p].hashing
    /\ PieceChanged(p, [pieces[p] EXCEPT !.hashing = TRUE])

\* hashing of the piece ends, with the hash matching or not
PieceHashed(p, ok) ==
    /\ pieces[p].hashing
    /\ PieceChanged(p, [pieces[p] EXCEPT !.hashing = FALSE,
                                         !.complete = ok,
                                         !.partial = FALSE])

\* a peer that has the piece comes or goes
PieceAvailabilityChanged(p, n) ==
    /\ n \in 0..MaxAvailability
    /\ n # pieces[p].availability
    /\ PieceChanged(p, [pieces[p] EXCEPT !.availability = n])

\* a chunk of the piece becomes dirty or pending, so that the piece turns
\* partial or stops being so
PiecePartialChanged(p) ==
    /\ ~pieces[p].complete
    /\ ~pieces[p].hashing
    /\ PieceChanged(p, [pieces[p] EXCEPT !.partial = ~@])

\* the changes C21 names
OrderUpdated(p) ==
    \/ \E prio \in PiecePriorities : SetPiecePriority(p, prio)
    \/ PieceCompletionChanged(p)
    \/ PieceHashStarts(p)
    \/ \E ok \in BOOLEAN : PieceHashed(p, ok)

OrderNext ==
    \E p \in Pieces :
        \/ \E prio \in PiecePriorities : SetPiecePriority(p, prio)
        \/ PieceCompletionChanged(p)
        \/ PieceHashStarts(p)
        \/ \E ok \in BOOLEAN : PieceHashed(p, ok)
        \/ \E n \in 0..MaxAvailability : PieceAvailabilityChanged(p, n)
        \/ PiecePartialChanged(p)

OrderSpecInit ==
    LockIdle /\ WriterInit /\ WebseedInit /\ RequesterInit /\ PeerInit /\ OrderSpecStart

OrderSpecNext ==
    OrderNext /\ UNCHANGED <<lockVars, writerVars, peerVars, requesterVars,
                            webseedVars>>

OrderSpec == OrderSpecInit /\ [][OrderSpecNext]_vars

\* ================================================= properties of the lock

\* entries of q after position from that call callback f
Pending(q, from, f) == Cardinality({k \in (from + 1)..Len(q) : q[k].f = f})

\* how far the running runUnlockActions has got, 0 when none is running
Done == IF \E g \in Goroutines : Running(g) THEN i ELSE 0

KeyOf(a) == unaryFuncKey(a.f, a.arg)

\* C5: every action accepted by Defer is called exactly once: at any moment
\* the calls made plus the actions still queued equal the actions accepted;
\* the running runUnlockActions has called the queue's prefix in queue order;
\* and when Unlock reaches its release of the mutex, still holding it, the
\* queue is empty and every accepted action has been called.
C5_DeferredRunOnceFifoBeforeRelease ==
    /\ \A f \in Callbacks :
          nRun[f] + Pending(unlockActions, Done, f) = nDeferred[f]
    /\ \A g \in Goroutines :
          Running(g) => ran = SubSeq(unlockActions, 1, i)
    /\ \A g \in Goroutines :
          pc[g] \in {"releasing", "releasing_event"} =>
             /\ internal = g
             /\ unlockActions = <<>>
             /\ nRun = nDeferred

\* an Unlock about to free the mutex after calling two different actions in
\* the order they were deferred
C5_Witness ==
    \E g \in Goroutines :
        /\ pc[g] = "releasing"
        /\ Len(ran) = 2
        /\ ran[1].f = "g" /\ ran[2].f = "f"
        /\ nRun["g"] = 1 /\ nRun["f"] = 1

\* C6: within one cycle a key registered with DeferUniqueUnaryFunc, however
\* often, has exactly one action queued; the key set is exactly the keys of
\* the queued unique actions, so it empties with the queue and the next
\* cycle's registration is accepted again.
C6_UniqueKeyQueuedOnce ==
    /\ \A c \in 1..Len(uniqueCalls) :
          Cardinality({k \in 1..Len(unlockActions) :
                          /\ unlockActions[k].once
                          /\ KeyOf(unlockActions[k]) =
                                unaryFuncKey(uniqueCalls[c][1], uniqueCalls[c][2])})
             = 1
    /\ uniqueActions = {KeyOf(unlockActions[k]) :
                           k \in {j \in 1..Len(unlockActions) :
                                     unlockActions[j].once}}

\* the same callback and argument registered twice in one cycle: one action
\* is queued, one was accepted
C6_Witness ==
    /\ uniqueCalls = << <<"f", "p">>, <<"f", "p">> >>
    /\ unlockActions = << Entry("f", "p", TRUE) >>
    /\ nDeferred["f"] = 1

\* C7: the key is the pair (callback, argument): every pair registered in the
\* cycle has its own queued action, so two callbacks registered with the same
\* argument are both called at unlock.
C7_KeyIsCallbackAndArgument ==
    \A c \in 1..Len(uniqueCalls) :
        \E k \in 1..Len(unlockActions) :
            unlockActions[k] = Entry(uniqueCalls[c][1], uniqueCalls[c][2], TRUE)

\* C8: the steps of compatCond.Wait that release and re-acquire the lock call
\* no deferred action and leave the queue and the key set as they are; Wait
\* returns with the caller holding the mutex and the flag set.
C8_WaitKeepsDeferredActions ==
    [][\A g \in Goroutines :
          (WaitRelease(g) \/ WaitReacquire(g)) =>
             /\ unlockActions' = unlockActions
             /\ uniqueActions' = uniqueActions
             /\ nRun' = nRun
             /\ (pc'[g] = "locked" =>
                    internal' = g /\ allowDefers' /\ mode'[g] = "defer")]_vars

\* a goroutine blocked in Wait, the mutex free, its deferred action queued
C8_Witness ==
    \E g \in Goroutines :
        /\ pc[g] = "waiting"
        /\ internal = 0
        /\ Len(unlockActions) > 0
        /\ Total(nRun) = 0

\* C9: the two modes are never crossed: the flag is clear whenever the mutex
\* is free, a raw holder never sees the flag set, and neither Lock nor
\* SafeLock ever trips its assertion on the flag.
C9_ModesNeverCrossed ==
    /\ internal = 0 => ~allowDefers
    /\ \A g \in Goroutines :
          (internal = g /\ mode[g] = "raw") => ~allowDefers
    /\ panicked \notin {"Lock: allowDefers", "SafeLock: allowDefers"}

\* C10: Signal closes the channel of the most recently registered waiter and
\* of no other, and removes it; Broadcast and Event.Broadcast close every
\* registered channel and empty the list; a channel is closed only while it
\* is registered and is unregistered by the step that closes it; a Wait
\* starts with a fresh open channel and returns only once it is closed.
C10_SignalNewestBroadcastAll ==
    [][LET shut == {g \in Goroutines : ch[g] = "open" /\ ch'[g] = "closed"} IN
       /\ (Signal /\ waiters # <<>>) =>
             /\ shut = {waiters[Len(waiters)]}
             /\ waiters' = SubSeq(waiters, 1, Len(waiters) - 1)
       /\ Broadcast => (shut = Range(waiters) /\ waiters' = <<>>)
       /\ EventBroadcast =>
             (shut = Range(eventWaiters) /\ eventWaiters' = <<>>)
       /\ \A g \in shut :
             /\ g \in Range(waiters) \cup Range(eventWaiters)
             /\ g \notin Range(waiters') \cup Range(eventWaiters')
       /\ \A g \in Goroutines :
             /\ (WaitRegister(g) \/ EventWaitRegister(g)) => ch'[g] = "open"
             /\ (pc[g] \in {"waiting", "ewaiting"} /\ pc'[g] = "locked") =>
                   ch[g] = "closed"]_vars

\* a goroutine woken by a Signal that left the waiter registered before it
\* in the list, still blocked
C10_Witness ==
    \E g, o \in Goroutines :
        /\ g # o
        /\ ch[g] = "closed" /\ pc[g] = "waiting" /\ leftWaiting[g] = 1
        /\ waiters = <<o>> /\ ch[o] = "open" /\ pc[o] = "waiting"


\* ============================================== properties of the writer

\* C3: whenever a reason is set on an open connection, the scheduler later
\* runs and clears it, or the connection is closed.
C3_ReasonEventuallyCleared ==
    (needRequestUpdate # "" /\ ~closed) ~> (needRequestUpdate = "" \/ closed)

\* C4: the writer never blocks again after a wake-up without having called
\* fillWriteBuffer in between.
C4_FillBeforeBlockingAgain ==
    wpc = "blocked" => filledSinceWake

\* ============================================ properties of the requests

\* C1: every request index with an entry in the torrent's requestState is in
\* the requests of the peer recorded there and of no other peer, and
\* deleteRequest never panics on a request another peer is recorded for.
C1_OneOwnerPerRequest ==
    /\ \A r \in RequestIndexes :
           requestState[r] # NoPeer =>
               \A p \in Peers : (r \in requests[p]) <=> (p = requestState[r])
    /\ peerPanic # "only one peer should have a given request at a time"

\* C2: the requests and the cancelled requests of a peer are disjoint, and
\* cancel never finds its request already cancelled.
C2_RequestsCancelledDisjoint ==
    /\ \A p \in Peers : requests[p] \cap cancelled[p] = {}
    /\ peerPanic # "request already cancelled"

\* a peer whose cancelled request awaits its acknowledgement while another
\* peer has requested the same chunk
C2_Witness ==
    \E p \in Peers, r \in RequestIndexes :
        /\ r \in cancelled[p] /\ r \notin requests[p]
        /\ validReceiveChunks[p][r] >= 1
        /\ requestState[r] \notin {NoPeer, p}

\* ------------------------------------------------- claims on chunk receipts

\* a chunk write is in flight: its receipt released the client lock to write
\* and has not taken it again
Writing(p, r) == chunkStage[p][r] = "writing"

WritesInFlight == {pr \in Peers \X RequestIndexes : Writing(pr[1], pr[2])}

\* C11: with writes of different chunks of the piece in flight at once, the
\* piece is queued for verification exactly once: only by a write that ends
\* well and leaves pendingWrites at 0 with every chunk dirty and no other
\* write in flight, never again once it is queued, and always when the last
\* write leaves the piece all dirty.
C11_QueuedOnceByLastWriter ==
    [][/\ (queuedForHash' /\ ~queuedForHash) =>
              /\ \E p \in Peers, r \in RequestIndexes : ChunkWritten(p, r, FALSE)
              /\ pendingWrites' = 0
              /\ dirtyChunks' = RequestIndexes
              /\ \A p \in Peers, r \in RequestIndexes :
                     chunkStage'[p][r] # "writing"
       /\ queuedForHash =>
              /\ queuedForHash'
              /\ \A p \in Peers, r \in RequestIndexes :
                     ~(/\ ChunkWritten(p, r, FALSE)
                       /\ queuesPieceCheck(dirtyChunks, pendingWrites'))
       /\ pendingWrites' = Cardinality(WritesInFlight)'
       /\ (dirtyChunks' = RequestIndexes /\ pendingWrites' = 0) =>
              queuedForHash'
      ]_vars

\* two chunks were being written at once; the first write has ended well, the
\* piece is all dirty and is not queued while the second is in flight
C11_Witness ==
    /\ dirtyChunks = RequestIndexes
    /\ Cardinality(RequestIndexes) >= 2
    /\ pendingWrites = 1
    /\ Cardinality(WritesInFlight) = 1
    /\ ret = Returned("receiveChunk", "written")
    /\ ~queuedForHash

\* shouldRequest lets peer p ask for r, given that p has the piece, does not
\* choke and the piece is not hashing
MayRequest(s, p, r, queued) ==
    shouldRequest(s, p, r, RequestEnv(TRUE, FALSE, FALSE, FALSE, queued))
        = [err |-> "", panic |-> ""]

\* what a failed write leaves behind, but for pendingWrites: the chunk is
\* wanted again, nothing is queued for verification, the receiving peer has a
\* reason to update its requests, onWriteChunkErr was called and nil returned,
\* the peer is as open as it was and shouldRequest lets it ask for r again
WriteErrorUndone(p, r) ==
    /\ r \notin dirtyChunks'
    /\ ~queuedForHash'
    /\ peerNeedUpdate'[p] # ""
    /\ ret' = Returned("receiveChunk", "write error")
    /\ peerClosed' = peerClosed
    /\ peerPanic' = ""
    /\ r \notin requests'[p] \cup cancelled'[p]
    /\ MayRequest(PeerState', p, r, queuedForHash')

Receives(p, r) == ReceiveChunk(p, r) \/ WebseedResult(p, r, FALSE)

\* C13: when peer p receives a wanted chunk r it is entitled to while another
\* peer q holds the request for r, the receipt goes on to the write with q's
\* request cancelled: no peer has r in its requests and requestState has no
\* entry for r.
C13_OtherRequestCancelledBeforeWrite ==
    [][\A p \in Peers, r \in RequestIndexes :
           (/\ Receives(p, r)
            /\ validReceiveChunks[p][r] > 0
            /\ ~haveChunk(dirtyChunks, r)
            /\ requestState[r] \notin {NoPeer, p}
            /\ r \in requests[requestState[r]])
           => /\ peerPanic' = ""
              /\ Writing(p, r)'
              /\ \A q \in Peers : r \notin requests'[q]
              /\ requestState'[r] = NoPeer
      ]_vars

\* C14: a chunk received for request index r while the peer's
\* validReceiveChunks[r] is 0 is refused with "received unexpected chunk", and
\* the requests, cancelled and validReceiveChunks of the peers, requestState,
\* the dirty chunks and pendingWrites stay as they were.
C14_UnexpectedChunkRejected ==
    [][\A p \in Peers, r \in RequestIndexes :
           (Receives(p, r) /\ validReceiveChunks[p][r] = 0)
           => /\ ret' = Returned("receiveChunk", "received unexpected chunk")
              /\ peerPanic' = ""
              /\ UNCHANGED <<requests, cancelled, validReceiveChunks,
                             requestState, dirtyChunks, pendingWrites,
                             queuedForHash>>
      ]_vars

\* a chunk was refused as unexpected by a peer that was never entitled to it,
\* while another peer holds the request
C14_Witness ==
    /\ ret = Returned("receiveChunk", "received unexpected chunk")
    /\ \E p \in Peers, r \in RequestIndexes :
           /\ validReceiveChunks[p][r] = 0
           /\ requestState[r] \notin {NoPeer, p}
           /\ r \notin dirtyChunks

\* C15: a chunk the peer is entitled to send, received when the torrent
\* already has it, is discarded: it is counted as wasted and nil is returned,
\* nothing is written, dirty chunks, pendingWrites and the verification queue
\* stay as they were, and the peer's request or cancelled entry for r and one
\* count of validReceiveChunks[r] are consumed.
C15_RedundantChunkDiscarded ==
    [][\A p \in Peers, r \in RequestIndexes :
           (/\ Receives(p, r)
            /\ validReceiveChunks[p][r] > 0
            /\ haveChunk(dirtyChunks, r))
           => /\ ret' = Returned("receiveChunk", "wasted")
              /\ peerPanic' = ""
              /\ ~Writing(p, r)'
              /\ UNCHANGED <<dirtyChunks, pendingWrites, queuedForHash>>
              /\ validReceiveChunks'[p][r] = validReceiveChunks[p][r] - 1
              /\ r \notin requests'[p]
              /\ (r \in requests[p] \/ r \notin cancelled'[p])
      ]_vars

\* ------------------------------------------- claims on rejects and cancels

\* a step in which peer p is told that its request r is refused: a Reject
\* message on a peer connection, a failed transfer on a webseed
Rejects(p, r) == RemoteReject(p, r) \/ WebseedResult(p, r, TRUE)

\* C17: remoteRejectedRequest(r) removes r from the peer's requests and from
\* requestState if it is there, else from cancelled if it is there; in both
\* cases validReceiveChunks[r] goes down by one and true is returned; if r is
\* in neither set false is returned and nothing changes.
C17_RemoteRejected ==
    [][\A p \in Peers, r \in RequestIndexes :
           Rejects(p, r) =>
               IF r \in requests[p]
               THEN /\ peerPanic' = ""
                    /\ requests' = [requests EXCEPT ![p] = @ \ {r}]
                    /\ requestState' = [requestState EXCEPT ![r] = NoPeer]
                    /\ cancelled' = cancelled
                    /\ validReceiveChunks' =
                           [validReceiveChunks EXCEPT ![p][r] = @ - 1]
                    /\ ret' = Returned("remoteRejectedRequest", "true")
               ELSE IF r \in cancelled[p]
               THEN /\ peerPanic' = ""
                    /\ cancelled' = [cancelled EXCEPT ![p] = @ \ {r}]
                    /\ UNCHANGED <<requests, requestState>>
                    /\ validReceiveChunks' =
                           [validReceiveChunks EXCEPT ![p][r] = @ - 1]
                    /\ ret' = Returned("remoteRejectedRequest", "true")
               ELSE /\ ret' = Returned("remoteRejectedRequest", "false")
                    /\ UNCHANGED <<requests, cancelled, validReceiveChunks,
                                   requestState, peerNeedUpdate, peakRequests,
                                   peerPanic, torrentVars>>
      ]_vars

\* C18: cancel(r) for r in the peer's requests removes r from requests and
\* from requestState and adds r to cancelled exactly when the transport will
\* acknowledge the cancel; cancelling all the requests of a peer leaves its
\* requests empty and no entry of requestState naming it.
C18_CancelRemovesRequest ==
    [][/\ \A p \in Peers, r \in RequestIndexes :
              Cancel(p, r) =>
                  /\ peerPanic' = ""
                  /\ requests' = [requests EXCEPT ![p] = @ \ {r}]
                  /\ requestState' = [requestState EXCEPT ![r] = NoPeer]
                  /\ cancelled' =
                         [cancelled EXCEPT ![p] =
                             IF cancelImpl(PeerState, p, r).ack
                             THEN @ \cup {r} ELSE @]
       /\ \A p \in Peers :
              (PeerClose(p) /\ IsWebseed(p)) =>
                  /\ peerPanic' = ""
                  /\ requests'[p] = {}
                  /\ \A r \in RequestIndexes : requestState'[r] # p
      ]_vars

\* --------------------------------------------------- claims on add_request

\* C19: add_request(r) returns an error, and does not panic, when the peer
\* has as many requests as nominalMaxRequests allows, when r is in cancelled,
\* when the peer lacks the piece, when the piece is hashing or queued for
\* hash, and when the peer chokes and the piece is not allowed fast; a failed
\* call leaves requests, cancelled, validReceiveChunks and requestState as
\* they were, a successful one adds r to requests, adds one to
\* validReceiveChunks[r] and records the peer in requestState.
C19_AddRequestFailsWithError ==
    [][\A p \in Peers, r \in RequestIndexes, has \in BOOLEAN,
          choking \in BOOLEAN, fast \in BOOLEAN, hashing \in BOOLEAN :
           AddRequest(p, r, has, choking, fast, hashing) =>
               IF \/ Cardinality(requests[p]) >= nominalMaxRequests(PeerState, p)
                  \/ r \in cancelled[p]
                  \/ ~has
                  \/ hashing \/ queuedForHash
                  \/ (choking /\ ~fast)
               THEN /\ peerPanic' = ""
                    /\ ret'.op = "request"
                    /\ ret'.out \notin {"added", "present", "panic"}
                    /\ UNCHANGED <<requests, cancelled, validReceiveChunks,
                                   requestState>>
               ELSE /\ peerPanic' = ""
                    /\ ret' = Returned("request", "added")
                    /\ requests' = [requests EXCEPT ![p] = @ \cup {r}]
                    /\ validReceiveChunks' =
                           [validReceiveChunks EXCEPT ![p][r] = @ + 1]
                    /\ requestState' = [requestState EXCEPT ![r] = p]
                    /\ cancelled' = cancelled
      ]_vars

C16_LockRestoredOnEveryReturn ==
    /\ panicked = ""
    /\ \A g \in Goroutines :
           /\ rpc[g] \in {"received", "returnedTrue", "returnedFalse"}
                  => internal = g
           /\ rpc[g] \in {"fetch", "handled"} => internal # g
           /\ rpc[g] \in {"write", "fetch", "backoff"} => internal # g

\* one requester is back from the back-off path of requestIteratorLocked
\* with the lock, after the other released it to write a chunk
C16_Witness ==
    \E g, h \in Goroutines :
        /\ rpc[g] = "returnedFalse"
        /\ internal = g
        /\ rpc[h] = "write"

\* ---------------------------------------- claims on the piece request order

InOrder(p) == pieceRequestOrder[p].present

StoredIsCurrent(p) ==
    InOrder(p) =>
        pieceRequestOrder[p].state = requestStrategyPieceOrderState(pieces, p)

InFlight(g) == rpc[g] \in {"fetch", "handler", "write", "received", "handled"}

\* C22: in a webseed peer every requester has at most one fetch in flight
\* and no request index is in flight in two requesters at once:
\* activeRequests holds exactly the request indexes of the requesters that
\* are between StartNewRequest and the delete, one entry each, so its size
\* never exceeds the number of requesters; and a requester writes a chunk
\* only for a request index that is not dirty and that the peer is still
\* entitled to receive, and the write uses up one of the receipts the
\* peer's requests for it allowed, so no chunk is written twice for one
\* request.
C22_OneFetchPerRequester ==
    /\ [](/\ \A g, h \in Goroutines :
                 (g # h /\ InFlight(g) /\ InFlight(h))
                     => reqIndex[g] # reqIndex[h]
          /\ activeRequests = {reqIndex[g] : g \in {h \in Goroutines : InFlight(h)}}
          /\ \A x \in RequestIndexes :
                 x \in activeRequests <=> chunkStage[WebseedPeer][x] # "none"
          /\ Cardinality(activeRequests) <= NumGoroutines)
    /\ [][\A g \in Goroutines :
              (rpc[g] # "write" /\ rpc'[g] = "write") =>
                  LET x == reqIndex[g] IN
                  /\ x \notin dirtyChunks
                  /\ x \in dirtyChunks'
                  /\ validReceiveChunks[WebseedPeer][x] > 0
                  /\ validReceiveChunks'[WebseedPeer][x]
                         = validReceiveChunks[WebseedPeer][x] - 1
                  /\ \A h \in Goroutines \ {g} :
                         rpc[h] = "write" => reqIndex[h] # x
      ]_vars

\* every requester has a fetch in flight, each for another request, and
\* one of them is writing the chunk it fetched
C22_Witness ==
    /\ \A g \in Goroutines : InFlight(g)
    /\ Cardinality(activeRequests) = NumGoroutines
    /\ \E g \in Goroutines : rpc[g] = "write"

Fetching == {x \in RequestIndexes : chunkStage[WebseedPeer][x] = "fetching"}

C27_KeepAliveOnlyWhenIdleAndUseful ==
    [][(frontBuf' = "keepalive" /\ frontBuf # "keepalive") =>
           /\ writeBuffer = "empty"
           /\ keepAliveTimer # "armed"
           /\ useful
           /\ wpc' = "write"
           /\ writeBuffer' = "empty"
      ]_vars

C27_Witness ==
    /\ wpc = "write"
    /\ frontBuf = "keepalive"
    /\ useful
    /\ ~closed

\* C30: the writer never holds cn.mu waiting for the client lock in
\* keepAlive() while the holder of the client lock waits for cn.mu in write().
C30_NoLockOrderDeadlock ==
    ~(/\ wpc = "keepalive"
      /\ cnMu = "writer"
      /\ clientMu = "caller in write")

\* ------------------------------------------------ claims on Event and Drop

\* io.Copy's last Read has returned and released the client lock
CopyReturned == readState = "returned" /\ pc[Reader] = "idle"

\* the reader is blocked in Event.Wait on a channel nobody has closed
ReaderBlocked == pc[Reader] = "ewaiting" /\ ch[Reader] = "open"

InCondWait(g) == pc[g] \in {"registered", "waiting"} /\ ch[g] = "open"

\* g is inside Event.Wait with its channel still open
InEventWait(g) ==
    pc[g] \in {"eregistered", "run_event", "releasing_event", "ewaiting"} /\ ch[g] = "open"

\* C31: a waiter is in the wake-up queue from before it releases the lock
\* until it is woken, so a Broadcast at any moment after the release closes
\* the channel of every waiter that has released the lock: no wake-up is
\* lost between the release and the waiter blocking on its channel
C31_WaiterQueuedBeforeRelease ==
    /\ [](\A g \in Goroutines :
             /\ InCondWait(g) => g \in Range(waiters)
             /\ InEventWait(g) => g \in Range(eventWaiters))
    /\ [][Broadcast =>
            \A g \in Goroutines :
                pc[g] \in {"registered", "waiting"} => ch'[g] = "closed"]_vars
    /\ [][EventBroadcast =>
            \A g \in Goroutines :
                pc[g] \in {"eregistered", "run_event", "releasing_event",
                          "ewaiting"}
                    => ch'[g] = "closed"]_vars

\* one waiter of the condition variable and one of the Event have released
\* the lock and been woken
C31_Witness ==
    /\ panicked = ""
    /\ \E g \in Goroutines : pc[g] = "waiting" /\ ch[g] = "closed"
    /\ \E g \in Goroutines : pc[g] = "ewaiting" /\ ch[g] = "closed"
    /\ waiters = <<>>
    /\ eventWaiters = <<>>

\* ======================================= claims on nested deferred actions

\* the running runUnlockActions has called callback h, which calls Defer
NestedDeferRan == \E k \in 1..Len(ran) : ran[k].f = "h"

\* C38: a deferred action that itself schedules a deferred action is fatal
\* under Unlock and under FlushDeferred (the run it is part of never
\* returns), and the action it tried to schedule is never executed: a run
\* only calls the actions that were queued when it started
C38_NestedDeferFatalNeverRun ==
    /\ [][\A g \in Goroutines :
             (RunEnd(g) /\ NestedDeferRan) => panicked' # ""]_vars
    /\ [][\A g \in Goroutines :
             (RunAction(g) /\ NestedDeferRan) => i < startLen]_vars

\* the same for the runs started by Unlock alone
C38_UnderUnlock ==
    /\ [][\A g \in Goroutines :
             (RunEnd(g) /\ NestedDeferRan /\ pc[g] # "run_flush")
                 => panicked' # ""]_vars
    /\ [][\A g \in Goroutines :
             (RunAction(g) /\ NestedDeferRan /\ pc[g] # "run_flush")
                 => i < startLen]_vars

\* the fatal error alone, under Unlock and under FlushDeferred
C38_Fatal ==
    [][\A g \in Goroutines :
          (RunEnd(g) /\ NestedDeferRan) => panicked' # ""]_vars

\* ===================================== claims on the write of a chunk

\* C32: while the storage write of a received chunk r is in flight, with the
\* client lock released, r is dirty (not to be requested), r is in no peer's
\* requests and requestState has no entry for r
C32_WrittenChunkNotRequested ==
    \A p \in Peers, r \in RequestIndexes :
        Writing(p, r) =>
            /\ r \in dirtyChunks
            /\ \A q \in Peers : r \notin requests[q]
            /\ requestState[r] = NoPeer

\* the same for the receiving peer alone
C32_ReceiverHoldsNoRequest ==
    \A p \in Peers, r \in RequestIndexes :
        Writing(p, r) =>
            /\ r \in dirtyChunks
            /\ r \notin requests[p]
            /\ requestState[r] # p

\* ============================== claims on the count of expected receipts

\* how many of the two sets requests and cancelled of peer p contain r
AwaitedIn(p, r) ==
    (IF r \in requests[p] THEN 1 ELSE 0) + (IF r \in cancelled[p] THEN 1 ELSE 0)

\* C33: for every peer and request index r, validReceiveChunks[r] is at
\* least the number of the sets requests and cancelled that contain r and is
\* never negative, and a chunk that answers an outstanding or cancel-pending
\* request is never rejected as unexpected
C33_ExpectedReceiptsCoverRequests ==
    /\ [](\A p \in Peers, r \in RequestIndexes :
             /\ validReceiveChunks[p][r] >= AwaitedIn(p, r)
             /\ validReceiveChunks[p][r] >= 0)
    /\ [][\A p \in Peers, r \in RequestIndexes :
             (Receives(p, r) /\ AwaitedIn(p, r) >= 1)
                 => /\ receiveChunkImpl(PeerState, dirtyChunks, p, r).out
                           # "received unexpected chunk"
                    /\ validReceiveChunks'[p][r] = validReceiveChunks[p][r] - 1
         ]_vars

\* the chunk of one request is being written, its expected receipt used up,
\* while a cancelled request of the same peer still awaits its answer
C33_Witness ==
    \E p \in Peers, r \in RequestIndexes, r2 \in RequestIndexes :
        /\ peerPanic = ""
        /\ Writing(p, r)
        /\ validReceiveChunks[p][r] = 0
        /\ AwaitedIn(p, r) = 0
        /\ r2 \in cancelled[p]
        /\ validReceiveChunks[p][r2] >= 1

\* ================================== claims on running low on requests

\* a step that removes a request by a local cancel, a remote reject or the
\* receipt of a chunk
RemovesRequest(p, r) ==
    \/ Cancel(p, r)
    \/ RemoteReject(p, r)
    \/ Receives(p, r)
    \/ WebseedResult(p, r, TRUE)

\* the step took a request from peer q and left it without requests and
\* without cancelled requests
LeftLow(q) ==
    /\ peerPanic' = ""
    /\ requests'[q] # requests[q]
    /\ requests'[q] = {}
    /\ cancelled'[q] = {}

RequestCap(p) ==
    LET a == PeerMaxRequests[p]
        b == 2 * peakRequests[p]
        c == maxLocalToRemoteRequests
    IN  IF a <= b /\ a <= c THEN a ELSE IF b <= c THEN b ELSE c

\* C37: nominalMaxRequests is at least 1 and equals max(1, min(
\* PeerMaxRequests, 2 * peakRequests, the write buffer's request capacity)),
\* also once cancels and rejects have taken peakRequests to zero or below,
\* and a peer without outstanding requests is never refused a request for
\* having too many
C37_NominalMaxAtLeastOne ==
    /\ [](\A p \in Peers :
             /\ nominalMaxRequests(PeerState, p) >= 1
             /\ nominalMaxRequests(PeerState, p) =
                    (IF RequestCap(p) < 1 THEN 1 ELSE RequestCap(p)))
    /\ [][\A r \in RequestIndexes :
             (QuotaRequest(r) /\ requests[QuotaPeer] = {})
                 => ret' # Returned("request", "too many outstanding requests")
         ]_vars

\* with peakRequests below zero after a cancel, the peer has been given a
\* request again
C37_Witness ==
    /\ peerPanic = ""
    /\ peakRequests[QuotaPeer] < 0
    /\ nominalMaxRequests(PeerState, QuotaPeer) = 1
    /\ Cardinality(requests[QuotaPeer]) = 1
    /\ ret = Returned("request", "added")

\* ================================= claims on a requester without work

\* C35: a requester that finds no request it can start, the peer's requests
\* being empty or each of them active in another requester, releases the
\* lock and blocks in its select: passing over a request that is active
\* elsewhere does not count as having processed one, and a round that
\* processed nothing ends in the select, not at the head of the loop
C35_IdleRequesterBlocks ==
    /\ [][\A g \in Goroutines, x \in RequestIndexes :
             IterateActive(g, x)
                 => processedAnyRequests'[g] = processedAnyRequests[g]]_vars
    /\ [][\A g \in Goroutines :
             (RequesterRoundEnds(g) /\ ~processedAnyRequests[g])
                 => rpc'[g] = "waiting"]_vars

\* the end of a round alone
C35_RoundWithoutWorkBlocks ==
    [][\A g \in Goroutines :
          (RequesterRoundEnds(g) /\ ~processedAnyRequests[g])
              => rpc'[g] = "waiting"]_vars

\* ======================================= claims on the keep-alive timer

\* keepAliveTimeout has passed since the last write, nothing is buffered and
\* the peer is useful
KeepAliveDue ==
    /\ keepAliveTimer # "armed"
    /\ writeBuffer = "empty"
    /\ useful
    /\ ~closed

\* C36: every successful write resets the keep-alive timer, and once the
\* timeout has passed with the buffer empty and the peer useful (then or
\* later), a keep-alive is eventually written, on the timer alone, unless
\* something is buffered, the peer stops being useful or the connection
\* closes first
C36_KeepAliveEventuallyWritten ==
    /\ [][(wpc = "write" /\ wpc' = "top") => keepAliveTimer' = "armed"]_vars
    /\ KeepAliveDue ~>
           (frontBuf = "keepalive" \/ writeBuffer # "empty" \/ ~useful
               \/ closed)

\* the reset of the timer alone
C36_WriteResetsTimer ==
    [][(wpc = "write" /\ wpc' = "top") => keepAliveTimer' = "armed"]_vars

\* the same for a peer that is useful when the writer takes the timer's
\* signal, and without a caller inside write() (C30)
C36_UsefulWhenTimerTaken ==
    (KeepAliveDue /\ keepAliveTimer = "fired"
        /\ clientMu # "caller in write") ~>
           (frontBuf = "keepalive" \/ writeBuffer # "empty" \/ ~useful
               \/ closed \/ clientMu = "caller in write")

\* C36's progress without a caller inside write() (C30), the peer useful
\* then or later
C36_UsefulThenOrLater ==
    (KeepAliveDue /\ clientMu # "caller in write") ~>
           (frontBuf = "keepalive" \/ writeBuffer # "empty" \/ ~useful
               \/ closed \/ clientMu = "caller in write")

\* ================================================== chunkOverflowsPiece

\* pp.Integer is an unsigned 32-bit integer, held here as two 16-bit halves
\* <<high, low>>; pp.IntegerMax is its largest value
Half == 65536

IntegerMax == <<Half - 1, Half - 1>>

Integer(n) == <<n \div Half, n % Half>>

\* a > b for two values of pp.Integer
greaterInteger(a, b) == a[1] > b[1] \/ (a[1] = b[1] /\ a[2] > b[2])

\* a + b in full: <<carry, high, low>>
sumInFull(a, b) ==
    LET low == a[2] + b[2]
        high == a[1] + b[1] + (low \div Half)
    IN  <<high \div Half, high % Half, low % Half>>

\* a + b as the machine computes it: the carry out of 32 bits is lost
addInteger(a, b) == LET w == sumInFull(a, b) IN <<w[2], w[3]>>

\* a - b as the machine computes it: a borrow into 32 bits is lost
subInteger(a, b) ==
    LET borrow == IF a[2] < b[2] THEN 1 ELSE 0
    IN  <<(a[1] - b[1] - borrow + Half) % Half, (a[2] - b[2] + Half) % Half>>

chunkOverflowsPiece_NoOverflowCase(begin, length, pieceLength) ==
    greaterInteger(addInteger(begin, length), pieceLength)

\* chunkOverflowsPiece(cs, pieceLength): the switch's two cases
chunkOverflowsPiece(begin, length, pieceLength) ==
    \/ greaterInteger(addInteger(begin, length), pieceLength)
    \/ greaterInteger(begin, subInteger(IntegerMax, length))

\* values of pp.Integer at and around the ends of its range, of its halves
\* and of a piece
IntegerSamples ==
    {Integer(0), Integer(1), Integer(16384), Integer(Half - 1), Integer(Half),
     <<Half \div 2, 0>>, <<Half - 1, Half - 2>>, IntegerMax}

OverflowCalls ==
    [begin : IntegerSamples, length : IntegerSamples,
     pieceLength : IntegerSamples]

\* everything at rest but the call, whose arguments are drawn from calls
PureInit(calls) ==
    /\ LockStart /\ waitImpl = "safe"
    /\ WriterInit /\ WebseedInit /\ OrderInit /\ RequesterInit /\ PeerInit
    /\ call \in calls
    /\ result = NoResult

PureRest == <<internal, allowDefers, unlockActions, uniqueActions, pc, mode,
              i, startLen, waiters, eventWaiters, ch, waitImpl, panicked,
              ran, nDeferred, nRun, uniqueCalls, leftWaiting, dropVars,
              writerVars, peerVars, requesterVars, orderVars, webseedVars>>

\* the call returns
CallChunkOverflowsPiece ==
    /\ result = NoResult
    /\ result' = <<chunkOverflowsPiece(call.begin, call.length,
                                         call.pieceLength)>>
    /\ UNCHANGED <<call, PureRest>>

OverflowSpec == PureInit(OverflowCalls) /\ [][CallChunkOverflowsPiece]_vars

\* begin + length, computed without wrap-around, exceeds limit
EndsBeyond(c, limit) ==
    LET w == sumInFull(c.begin, c.length)
    IN  w[1] > 0 \/ greaterInteger(<<w[2], w[3]>>, limit)

\* C39: chunkOverflowsPiece(begin, length, pieceLength) is true exactly when
\* begin + length, computed without wrap-around, exceeds pieceLength; it is
\* true whenever begin + length overflows the 32-bit integer
C39_OverflowsExactlyBeyondPiece ==
    result # NoResult =>
        /\ result[1] <=> EndsBeyond(call, call.pieceLength)
        /\ EndsBeyond(call, IntegerMax) => result[1]

\* a chunk whose end wraps round to an offset inside the piece was found to
\* overflow
C39_Witness ==
    /\ result = <<TRUE>>
    /\ EndsBeyond(call, IntegerMax)
    /\ ~greaterInteger(addInteger(call.begin, call.length), call.pieceLength)


\* ====================================================== expectingChunks

\* the request indexes of a torrent of NumPieces pieces of PieceChunks chunks
TorrentRequestIndexes == 0..(NumPieces * PieceChunks - 1)

\* Torrent.pieceRequestIndexOffset
pieceRequestIndexOffset(piece) == piece * PieceChunks

\* roaringBitmapRangeCardinality: the members of bm in [from, to)
roaringBitmapRangeCardinality(bm, from, to) ==
    Cardinality({x \in bm : from <= x /\ x < to})

\* the callback expectingChunks hands to peerAllowedFast.Iterate
noRequestsIn(reqs, piece) ==
    roaringBitmapRangeCardinality(reqs, pieceRequestIndexOffset(piece),
                                  pieceRequestIndexOffset(piece + 1)) = 0

\* peerAllowedFast.Iterate(f): f is called on the pieces in ascending order
\* until it returns false; have is what the last call left in
\* haveAllowedFastRequests
RECURSIVE iterateAllowedFast(_, _, _)
iterateAllowedFast(fast, reqs, have) ==
    IF fast = {} THEN have
    ELSE LET piece == CHOOSE p \in fast : \A q \in fast : p <= q
             found == noRequestsIn(reqs, piece)
         IN  IF ~found
             THEN iterateAllowedFast(fast \ {piece}, reqs, found)
             ELSE found

\* Peer.expectingChunks
expectingChunks(c) ==
    IF c.requests = {} THEN FALSE
    ELSE IF ~c.interested THEN FALSE
    ELSE IF ~c.peerChoking THEN TRUE
    ELSE iterateAllowedFast(c.peerAllowedFast, c.requests, FALSE)

ExpectingCalls ==
    [requests : SUBSET TorrentRequestIndexes, interested : BOOLEAN,
     peerChoking : BOOLEAN, peerAllowedFast : SUBSET Pieces]

\* the call returns
CallExpectingChunks ==
    /\ result = NoResult
    /\ result' = <<expectingChunks(call)>>
    /\ UNCHANGED <<call, PureRest>>

ExpectingSpec == PureInit(ExpectingCalls) /\ [][CallExpectingChunks]_vars

\* the peer has a request inside a piece the remote marked allowed-fast
HasAllowedFastRequest(c) ==
    \E x \in c.requests :
        \E piece \in c.peerAllowedFast :
            /\ pieceRequestIndexOffset(piece) <= x
            /\ x < pieceRequestIndexOffset(piece + 1)

\* C40: while the remote peer is choking us, a peer is expecting chunks if
\* and only if we are interested and it has at least one outstanding request
\* inside an allowed-fast piece
C40_ExpectingWhileChoked ==
    (result # NoResult /\ call.peerChoking) =>
        (result[1] <=> (call.interested /\ HasAllowedFastRequest(call)))

\* the cases outside the allowed-fast test: without requests or interest the
\* peer expects nothing, and an interested peer with requests that is not
\* choked expects chunks
C40_OutsideAllowedFast ==
    result # NoResult =>
        /\ (call.requests = {} \/ ~call.interested) => ~result[1]
        /\ (call.requests # {} /\ call.interested /\ ~call.peerChoking)
               => result[1]
====
